---- MODULE Spec2Model ----
(***************************************************************************)
(* The JSON reader of src/pulse/json.c: the value type, its reference      *)
(* count, the recursive-descent parser and pa_json_object_unref.           *)
(*                                                                         *)
(* Text is a sequence of bytes (0..255); a cursor `str` is a 1-based index *)
(* into the text, index Len+1 holding the terminating NUL, and 0 is the    *)
(* NULL pointer.  Memory is a sequence of cells, a pointer being the index *)
(* of its cell; every allocation appends a cell and every free counts on   *)
(* the cell it frees, so that a leak is a cell never freed and a double    *)
(* free a cell freed twice.                                                *)
(*                                                                         *)
(* The command interpreter of cli-command.c (src/unnamed/part_000) is      *)
(* modelled further down, with its own state in cli.                       *)
(***************************************************************************)
EXTENDS Integers, Sequences, FiniteSets, TLC

VARIABLES input, mem, root, phase, ret, cli

vars == <<input, mem, root, phase, ret, cli>>

(***************************************************************************)
(* The bytes the source names.                                             *)
(***************************************************************************)
NULL == 0
NUL == 0
CH_BS == 8
CH_TAB == 9
CH_LF == 10
CH_FF == 12
CH_CR == 13
CH_SPACE == 32
CH_QUOTE == 34
CH_HASH == 35
CH_PLUS == 43
CH_COMMA == 44
CH_MINUS == 45
CH_DOT == 46
CH_SLASH == 47
CH_0 == 48
CH_9 == 57
CH_COLON == 58
CH_E == 69
CH_LBRACKET == 91
CH_BACKSLASH == 92
CH_RBRACKET == 93
CH_a == 97
CH_b == 98
CH_c == 99
CH_d == 100
CH_e == 101
CH_f == 102
CH_i == 105
CH_l == 108
CH_n == 110
CH_o == 111
CH_r == 114
CH_s == 115
CH_t == 116
CH_u == 117
CH_v == 118
CH_LBRACE == 123
CH_RBRACE == 125
PRINT_MIN == 32
PRINT_MAX == 126

\* unsigned int is 32 bits wide: a value is kept as two 16-bit limbs
LIMB == 65536

(***************************************************************************)
(* Memory.  One cell per allocation.                                       *)
(*   kind   "json" | "string" | "strbuf" | "hashmap" | "idxset"            *)
(*   frees  how many times the cell was freed                              *)
(*   ref    PA_REFCNT of a pa_json_object                                  *)
(*   type   pa_json_type of a pa_json_object                               *)
(*   the union: int_value, double_value, bool_value, and ptr for           *)
(*   string_value / object_values / array_values                           *)
(*   chars  the bytes of a string or strbuf                                *)
(*   items  the entries <<key, value>> of a hashmap, the members of an     *)
(*          idxset, in insertion order                                     *)
(*   puts   of a hashmap: every <<key bytes, value>> parse_object put      *)
(*          into it, in the order of the puts                              *)
(***************************************************************************)
NoDouble == [neg |-> FALSE, mant |-> 0, exp10 |-> 0]

Cell(kind) ==
    [kind |-> kind, frees |-> 0, ref |-> 0, type |-> "INIT",
     int_value |-> 0, double_value |-> NoDouble, bool_value |-> FALSE,
     ptr |-> NULL, chars |-> <<>>, items |-> <<>>, puts |-> <<>>]

\* m is the machine state threaded through every call:
\*   heap  the cells
\*   log   one entry per parse_value call that reached FINISH or returned
\*   rd    the highest index of the text dereferenced so far
EmptyMachine == [heap |-> <<>>, log |-> <<>>, rd |-> 0]

Alloc(m, cell) == [m EXCEPT !.heap = Append(@, cell)]

LastPtr(m) == Len(m.heap)

pa_xfree(m, p) ==
    IF p = NULL THEN m ELSE [m EXCEPT !.heap[p].frees = @ + 1]

\* *str : the byte under the cursor; -1 stands for a byte outside the text
Deref(str) ==
    IF str >= 1 /\ str <= Len(input) THEN input[str]
    ELSE IF str = Len(input) + 1 THEN NUL
    ELSE -1

Rd(m, str) == [m EXCEPT !.rd = IF str > @ THEN str ELSE @]

NullStr == [null |-> TRUE, chars |-> <<>>]

CStr(cs) == [null |-> FALSE, chars |-> cs]

json_object_new(m) ==
    LET made(m1) == [obj |-> LastPtr(m1), m |-> m1]
    IN  made(Alloc(m, Cell("json")))

is_whitespace(c) == c = CH_TAB \/ c = CH_LF \/ c = CH_CR \/ c = CH_SPACE

is_digit(c) == c >= CH_0 /\ c <= CH_9

is_end(c, end) ==
    IF end.null THEN c = NUL
    ELSE \E i \in 1..Len(end.chars) : c = end.chars[i]

RECURSIVE consume_string_loop(_, _, _, _)
consume_string_loop(str, expect, k, m) ==
    IF k > Len(expect) THEN [str |-> str, m |-> m]
    ELSE IF Deref(str) # expect[k] THEN [str |-> NULL, m |-> Rd(m, str)]
    ELSE consume_string_loop(str + 1, expect, k + 1, Rd(m, str))

consume_string_first_byte(str, expect, m) ==
    consume_string_loop(str, SubSeq(expect, 1, 1), 1, m)

consume_string(str, expect, m) == consume_string_loop(str, expect, 1, m)

LIT_null == <<CH_n, CH_u, CH_l, CH_l>>

LIT_true == <<CH_t, CH_r, CH_u, CH_e>>

LIT_false == <<CH_f, CH_a, CH_l, CH_s, CH_e>>

SetType(m, obj, t) == [m EXCEPT !.heap[obj].type = t]

parse_null(str, obj, m) ==
    LET consumed(r) ==
            [str |-> r.str,
             m |-> IF r.str # NULL THEN SetType(r.m, obj, "NULL") ELSE r.m]
    IN  consumed(consume_string(str, LIT_null, m))

SetBool(m, obj, b) ==
    [m EXCEPT !.heap[obj].type = "BOOL", !.heap[obj].bool_value = b]

parse_boolean(str, obj, m) ==
    LET tried_false(t2) ==
            [str |-> t2.str,
             m |-> IF str # NULL THEN SetBool(t2.m, obj, FALSE) ELSE t2.m]
        tried_true(t1) ==
            IF t1.str # NULL
            THEN [str |-> t1.str, m |-> SetBool(t1.m, obj, TRUE)]
            ELSE tried_false(consume_string(str, LIT_false, t1.m))
    IN  tried_true(consume_string(str, LIT_true, m))

(***************************************************************************)
(* pa_strbuf (pulsecore/strbuf.c), as parse_string uses it: a buffer that  *)
(* accumulates bytes and is either turned into a string or freed.          *)
(***************************************************************************)
pa_strbuf_new(m) == Alloc(m, Cell("strbuf"))

pa_strbuf_putc(m, buf, c) == [m EXCEPT !.heap[buf].chars = Append(@, c)]

pa_strbuf_free(m, buf) == pa_xfree(m, buf)

\* returns the machine with a new string cell last, the buffer freed
pa_strbuf_to_string_free(m, buf) ==
    pa_strbuf_free(Alloc(m, [Cell("string") EXCEPT !.chars = m.heap[buf].chars]), buf)

is_printable_low_only(c) == ~(c < PRINT_MIN)

is_printable_or_nul(c) == ~((c < PRINT_MIN /\ c # NUL) \/ c > PRINT_MAX)

\* line 130: only ASCII printable bytes are accepted unescaped
is_printable(c) == ~(c < PRINT_MIN \/ c > PRINT_MAX)

unescape_swapped(c) ==
    CASE c = CH_QUOTE \/ c = CH_BACKSLASH \/ c = CH_SLASH -> c
      [] c = CH_b -> CH_BS
      [] c = CH_f -> CH_FF
      [] c = CH_n -> CH_CR
      [] c = CH_r -> CH_LF
      [] c = CH_t -> CH_TAB
      [] OTHER -> -1

unescape_unicode(c) ==
    CASE c = CH_QUOTE \/ c = CH_BACKSLASH \/ c = CH_SLASH -> c
      [] c = CH_b -> CH_BS
      [] c = CH_f -> CH_FF
      [] c = CH_n -> CH_LF
      [] c = CH_r -> CH_CR
      [] c = CH_t -> CH_TAB
      [] c = CH_u -> c
      [] OTHER -> -1

\* the switch of lines 141-175: the byte an escape stands for, -1 on error
unescape(c) ==
    CASE c = CH_QUOTE \/ c = CH_BACKSLASH \/ c = CH_SLASH -> c
      [] c = CH_b -> CH_BS
      [] c = CH_f -> CH_FF
      [] c = CH_n -> CH_LF
      [] c = CH_r -> CH_CR
      [] c = CH_t -> CH_TAB
      [] c = CH_u -> -1
      [] OTHER -> -1

parse_string_error(buf, m) == [str |-> NULL, m |-> pa_strbuf_free(m, buf)]

\* lines 181-191, reached with *str = '"'
parse_string_finish(str, obj, buf, m) ==
    IF Deref(str) # CH_QUOTE THEN parse_string_error(buf, m)
    ELSE LET stored(m1) ==
                 [str |-> str + 1,
                  m |-> [m1 EXCEPT !.heap[obj].type = "STRING",
                                   !.heap[obj].ptr = LastPtr(m1)]]
         IN  stored(pa_strbuf_to_string_free(m, buf))

RECURSIVE parse_string_loop(_, _, _, _)
parse_string_loop(str, obj, buf, m0) ==
    LET m == Rd(m0, str)
        c == Deref(str)
    IN  IF c = CH_QUOTE THEN parse_string_finish(str, obj, buf, m)
        ELSE IF c # CH_BACKSLASH
        THEN IF ~is_printable(c) THEN parse_string_error(buf, m)
             ELSE parse_string_loop(str + 1, obj, buf, pa_strbuf_putc(m, buf, c))
        ELSE LET m2 == Rd(m, str + 1)
                 u == unescape(Deref(str + 1))
             IN  IF u = -1 THEN parse_string_error(buf, m2)
                 ELSE parse_string_loop(str + 2, obj, buf, pa_strbuf_putc(m2, buf, u))

parse_string(str, obj, m) ==
    LET scan(m1) == parse_string_loop(str + 1, obj, LastPtr(m1), m1)
    IN  scan(pa_strbuf_new(m))

(***************************************************************************)
(* unsigned int arithmetic, modulo 2^32, on two 16-bit limbs.              *)
(***************************************************************************)
U32Zero == [hi |-> 0, lo |-> 0]

U32MulAddNoCarry(u, d) ==
    [hi |-> (u.hi * 10) % LIMB, lo |-> (u.lo * 10 + d) % LIMB]

\* u * 10 + d
U32MulAdd(u, d) ==
    LET l == u.lo * 10 + d
    IN  [hi |-> (u.hi * 10 + (l \div LIMB)) % LIMB, lo |-> l % LIMB]

\* u * (unsigned) -1
U32Neg(u) ==
    [hi |-> (LIMB - 1 - u.hi + (IF u.lo = 0 THEN 1 ELSE 0)) % LIMB,
     lo |-> (LIMB - u.lo) % LIMB]

\* the conversion of an unsigned int to int
U32ToInt(u) ==
    IF u.hi >= LIMB \div 2 THEN (u.hi - LIMB) * LIMB + u.lo
    ELSE u.hi * LIMB + u.lo

\* the conversion of an unsigned int to double
U32ToNat(u) == u.hi * LIMB + u.lo

RECURSIVE Pow10(_)
Pow10(n) == IF n = 0 THEN 1 ELSE 10 * Pow10(n - 1)

\* lines 215-218
RECURSIVE parse_number_integer(_, _, _)
parse_number_integer(str, integer, m0) ==
    LET m == Rd(m0, str)
    IN  IF is_digit(Deref(str))
        THEN parse_number_integer(str + 1, U32MulAdd(integer, Deref(str) - CH_0), m)
        ELSE [str |-> str, integer |-> integer, m |-> m]

\* lines 225-229
RECURSIVE parse_number_fraction(_, _, _, _)
parse_number_fraction(str, fraction, fraction_digits, m0) ==
    LET m == Rd(m0, str)
    IN  IF is_digit(Deref(str))
        THEN parse_number_fraction(str + 1, U32MulAdd(fraction, Deref(str) - CH_0),
                                   fraction_digits + 1, m)
        ELSE [str |-> str, fraction |-> fraction,
              fraction_digits |-> fraction_digits, m |-> m]

\* lines 244-247
RECURSIVE parse_number_exponent_digits(_, _, _)
parse_number_exponent_digits(str, exponent, m0) ==
    LET m == Rd(m0, str)
    IN  IF is_digit(Deref(str))
        THEN parse_number_exponent_digits(str + 1, exponent * 10 + (Deref(str) - CH_0), m)
        ELSE [str |-> str, exponent |-> exponent, m |-> m]

\* lines 232-251, reached with *str = 'e' or 'E'
parse_number_exponent(str, m0) ==
    LET s1 == str + 1
        exponent_negative == Deref(s1) = CH_MINUS
        signed(r) ==
            [str |-> r.str,
             exponent |-> IF exponent_negative THEN r.exponent * (-1) ELSE r.exponent,
             m |-> r.m]
    IN  signed(parse_number_exponent_digits(
                   IF Deref(s1) = CH_MINUS \/ Deref(s1) = CH_PLUS THEN s1 + 1 ELSE s1,
                   0, Rd(m0, s1)))

number_result_fraction_only(m, obj, n) ==
    IF n.has_fraction
    THEN [m EXCEPT !.heap[obj].type = "DOUBLE",
                   !.heap[obj].double_value =
                       [neg |-> n.negative,
                        mant |-> U32ToNat(n.integer) * Pow10(n.fraction_digits)
                                 + U32ToNat(n.fraction),
                        exp10 |-> n.exponent - n.fraction_digits]]
    ELSE [m EXCEPT !.heap[obj].type = "INT",
                   !.heap[obj].int_value =
                       U32ToInt(IF n.negative THEN U32Neg(n.integer) ELSE n.integer)]

\* lines 253-260, n holding the locals of parse_number:
\* sign * (integer + fraction / 10^fraction_digits) * 10^exponent is kept
\* exactly, as (-1)^neg * mant * 10^exp10
number_result(m, obj, n) ==
    IF n.has_fraction \/ n.has_exponent
    THEN [m EXCEPT !.heap[obj].type = "DOUBLE",
                   !.heap[obj].double_value =
                       [neg |-> n.negative,
                        mant |-> U32ToNat(n.integer) * Pow10(n.fraction_digits)
                                 + U32ToNat(n.fraction),
                        exp10 |-> n.exponent - n.fraction_digits]]
    ELSE [m EXCEPT !.heap[obj].type = "INT",
                   !.heap[obj].int_value =
                       U32ToInt(IF n.negative THEN U32Neg(n.integer) ELSE n.integer)]

\* lines 198-263: the sign, then the integer part ip, the fraction part fp and
\* the exponent part ep, each a step taking what the steps before it left
parse_number(str, obj, m0) ==
    LET negative == Deref(str) = CH_MINUS
        result(ip, fp, ep) ==
            [str |-> ep.str,
             m |-> number_result(ep.m, obj,
                       [negative |-> negative, has_fraction |-> fp.has_fraction,
                        has_exponent |-> ep.has_exponent, integer |-> ip.integer,
                        fraction |-> fp.fraction,
                        fraction_digits |-> fp.fraction_digits,
                        exponent |-> ep.exponent])]
        exponent_part(ip, fp, has_exponent) ==
            LET e(r) == result(ip, fp, [str |-> r.str, exponent |-> r.exponent,
                                        m |-> r.m, has_exponent |-> has_exponent])
            IN  e(IF has_exponent
                  THEN parse_number_exponent(fp.str, Rd(fp.m, fp.str))
                  ELSE [str |-> fp.str, exponent |-> 0, m |-> Rd(fp.m, fp.str)])
        fraction_part(ip, has_fraction) ==
            LET f(r) == exponent_part(ip,
                            [str |-> r.str, fraction |-> r.fraction,
                             fraction_digits |-> r.fraction_digits, m |-> r.m,
                             has_fraction |-> has_fraction],
                            Deref(r.str) = CH_e \/ Deref(r.str) = CH_E)
            IN  f(IF has_fraction
                  THEN parse_number_fraction(ip.str + 1, U32Zero, 0, Rd(ip.m, ip.str))
                  ELSE [str |-> ip.str, fraction |-> U32Zero, fraction_digits |-> 0,
                        m |-> Rd(ip.m, ip.str)])
        integer_part(s1) ==
            LET i(ip) == fraction_part(ip, Deref(ip.str) = CH_DOT)
            IN  i(IF Deref(s1) = CH_0
                  THEN [str |-> s1 + 1, integer |-> U32Zero, m |-> Rd(Rd(m0, str), s1)]
                  ELSE parse_number_integer(s1, U32Zero, Rd(Rd(m0, str), s1)))
    IN  integer_part(IF negative THEN str + 1 ELSE str)

(***************************************************************************)
(* Release.  PA_REFCNT_DEC decrements the count and yields the new value.  *)
(* pa_hashmap and pa_idxset (pulsecore) are kept as cells whose items are  *)
(* the entries in insertion order; the hashmap of parse_object frees its   *)
(* keys with pa_xfree and its values with pa_json_object_unref (lines      *)
(* 268-269), the idxsets are freed with pa_json_object_unref (350, 471).   *)
(***************************************************************************)
PA_REFCNT_DEC(m, obj) == [m EXCEPT !.heap[obj].ref = @ - 1]

RECURSIVE pa_json_object_unref(_, _)
RECURSIVE pa_hashmap_free_items(_, _, _)
RECURSIVE pa_idxset_free_items(_, _, _)

pa_hashmap_free_items(m, items, i) ==
    IF i > Len(items) THEN m
    ELSE pa_hashmap_free_items(
             pa_json_object_unref(pa_xfree(m, items[i][1]), items[i][2]),
             items, i + 1)

pa_hashmap_free(m, h) ==
    pa_xfree(pa_hashmap_free_items(m, m.heap[h].items, 1), h)

pa_idxset_free_items(m, items, i) ==
    IF i > Len(items) THEN m
    ELSE pa_idxset_free_items(pa_json_object_unref(m, items[i]), items, i + 1)

pa_idxset_free(m, s) ==
    pa_xfree(pa_idxset_free_items(m, m.heap[s].items, 1), s)

pa_json_object_unref_keeps_string(m, obj) ==
    LET m1 == PA_REFCNT_DEC(m, obj)
        t == m1.heap[obj].type
    IN  IF m1.heap[obj].ref > 0 THEN m1
        ELSE pa_xfree(
                 CASE t = "OBJECT" -> pa_hashmap_free(m1, m1.heap[obj].ptr)
                   [] t = "ARRAY" -> pa_idxset_free(m1, m1.heap[obj].ptr)
                   [] OTHER -> m1,
                 obj)

pa_json_object_unref(m, obj) ==
    LET m1 == PA_REFCNT_DEC(m, obj)
        t == m1.heap[obj].type
    IN  IF m1.heap[obj].ref > 0 THEN m1
        ELSE pa_xfree(
                 CASE t = "STRING" -> pa_xfree(m1, m1.heap[obj].ptr)
                   [] t = "OBJECT" -> pa_hashmap_free(m1, m1.heap[obj].ptr)
                   [] t = "ARRAY" -> pa_idxset_free(m1, m1.heap[obj].ptr)
                   [] OTHER -> m1,
                 obj)

pa_hashmap_new_full(m) == Alloc(m, Cell("hashmap"))

pa_idxset_new(m) == Alloc(m, Cell("idxset"))

\* the index of the entry of hashmap h whose key equals the bytes cs, 0 if none
HashmapFind(m, h, cs) ==
    LET items == m.heap[h].items
        hit == {i \in 1..Len(items) : m.heap[items[i][1]].chars = cs}
    IN  IF hit = {} THEN 0 ELSE CHOOSE i \in hit : TRUE

Remove(seq, i) == SubSeq(seq, 1, i - 1) \o SubSeq(seq, i + 1, Len(seq))

pa_hashmap_put_keeps_first(m, h, key, value) ==
    IF HashmapFind(m, h, m.heap[key].chars) = 0
    THEN [m EXCEPT !.heap[h].items = Append(@, <<key, value>>)]
    ELSE pa_json_object_unref(pa_xfree(m, key), value)

\* a repeated key replaces the entry, the replaced key and value being freed
pa_hashmap_put(m, h, key, value) ==
    LET i == HashmapFind(m, h, m.heap[key].chars)
        old == m.heap[h].items[i]
    IN  IF i = 0
        THEN [m EXCEPT !.heap[h].items = Append(@, <<key, value>>)]
        ELSE LET m1 == pa_json_object_unref(pa_xfree(m, old[1]), old[2])
             IN  [m1 EXCEPT !.heap[h].items = Append(Remove(@, i), <<key, value>>)]

pa_hashmap_get_any(m, h, cs) ==
    LET i == HashmapFind(m, h, cs)
    IN  IF i = 0 THEN m.heap[h].items[1][2] ELSE m.heap[h].items[i][2]

pa_hashmap_get(m, h, cs) ==
    LET i == HashmapFind(m, h, cs)
    IN  IF i = 0 THEN NULL ELSE m.heap[h].items[i][2]

pa_idxset_put_front(m, s, value) == [m EXCEPT !.heap[s].items = <<value>> \o @]

pa_idxset_put(m, s, value) == [m EXCEPT !.heap[s].items = Append(@, value)]

pa_idxset_size(m, s) == Len(m.heap[s].items)

\* the index is taken as an unsigned number, so a negative one is out of range
pa_idxset_get_by_index(m, s, idx) ==
    IF idx >= 0 /\ idx < Len(m.heap[s].items) THEN m.heap[s].items[idx + 1] ELSE NULL

pa_xstrdup(m, p) ==
    IF p = NULL THEN m
    ELSE Alloc(m, [Cell("string") EXCEPT !.chars = m.heap[p].chars])

pa_json_object_get_string(m, o) ==
    IF m.heap[o].type # "STRING" THEN NULL ELSE m.heap[o].ptr

\* name is the bytes of the key looked up
pa_json_object_get_object_member(m, o, name) ==
    IF m.heap[o].type # "OBJECT" THEN NULL
    ELSE pa_hashmap_get(m, m.heap[o].ptr, name)

\* pa_return_val_if_fail(expr, val); rest is what follows it in the function
pa_return_val_if_fail(expr, val, rest) == IF ~expr THEN val ELSE rest

pa_json_object_get_type(m, o) == m.heap[o].type

pa_json_object_get_int(m, o) ==
    pa_return_val_if_fail(m.heap[o].type = "INT", 0, m.heap[o].int_value)

pa_json_object_get_double(m, o) ==
    pa_return_val_if_fail(m.heap[o].type = "DOUBLE", NoDouble, m.heap[o].double_value)

pa_json_object_get_bool(m, o) ==
    pa_return_val_if_fail(m.heap[o].type = "BOOL", FALSE, m.heap[o].bool_value)

pa_json_object_get_array_length_unchecked(m, o) ==
    IF m.heap[o].ptr = NULL THEN 0
    ELSE Len(m.heap[m.heap[o].ptr].items) + Len(m.heap[m.heap[o].ptr].chars)

pa_json_object_get_array_length(m, o) ==
    pa_return_val_if_fail(m.heap[o].type = "ARRAY", 0,
                          pa_idxset_size(m, m.heap[o].ptr))

pa_json_object_get_array_member(m, o, index) ==
    pa_return_val_if_fail(m.heap[o].type = "ARRAY", NULL,
                          pa_idxset_get_by_index(m, m.heap[o].ptr, index))

(***************************************************************************)
(* The composite productions and parse_value.  A call yields the cursor    *)
(* (NULL on failure) and the machine; parse_value also yields *obj, which  *)
(* it assigns on success only.                                             *)
(***************************************************************************)
RECURSIVE parse_value(_, _, _)

parse_object_error_keeps_name(obj, name, value, m) ==
    LET cleared(m1) == [m1 EXCEPT !.heap[obj].ptr = NULL]
        unref_value(m3) == IF value # NULL THEN pa_json_object_unref(m3, value) ELSE m3
    IN  [str |-> NULL,
         m |-> unref_value(cleared(pa_hashmap_free(m, m.heap[obj].ptr)))]

\* lines 304-313
parse_object_error(obj, name, value, m) ==
    LET cleared(m1) == [m1 EXCEPT !.heap[obj].ptr = NULL]
        unref_name(m2) == IF name # NULL THEN pa_json_object_unref(m2, name) ELSE m2
        unref_value(m3) == IF value # NULL THEN pa_json_object_unref(m3, value) ELSE m3
    IN  [str |-> NULL,
         m |-> unref_value(unref_name(cleared(pa_hashmap_free(m, m.heap[obj].ptr))))]

\* lines 289-290
parse_object_put(obj, name, value, m) ==
    LET h == m.heap[obj].ptr
        put(m1) ==
            [pa_hashmap_put(m1, h, LastPtr(m1), value)
                EXCEPT !.heap[h].puts = Append(@, <<m1.heap[LastPtr(m1)].chars, value>>)]
    IN  pa_json_object_unref(
            put(pa_xstrdup(m, pa_json_object_get_string(m, name))), name)

RECURSIVE parse_object_loop(_, _, _)

parse_object_loop_any_key(str, obj, m0) ==
    LET m == Rd(m0, str)
        valued(k, v) ==
            IF v.str = NULL
            THEN parse_object_error(obj, k.obj, NULL, v.m)
            ELSE parse_object_loop(v.str, obj, parse_object_put(obj, k.obj, v.obj, v.m))
        named(k) ==
            IF k.str = NULL THEN parse_object_error(obj, NULL, NULL, k.m)
            ELSE valued(k, parse_value(k.str + 1, CStr(<<CH_COMMA, CH_RBRACE>>), k.m))
    IN  IF Deref(str) = CH_RBRACE
        THEN [str |-> str + 1, m |-> SetType(m, obj, "OBJECT")]
        ELSE named(parse_value(str + 1, CStr(<<CH_COLON>>), m))

parse_object_loop_closes_early(str, obj, m0) ==
    LET m == Rd(m0, str)
        valued(k, v) ==
            IF v.str = NULL
            THEN parse_object_error(obj, k.obj, NULL, v.m)
            ELSE parse_object_loop(v.str, obj, parse_object_put(obj, k.obj, v.obj, v.m))
        named(k) ==
            IF k.str = NULL THEN parse_object_error(obj, NULL, NULL, k.m)
            ELSE IF k.m.heap[k.obj].type # "STRING"
            THEN parse_object_error(obj, k.obj, NULL, k.m)
            ELSE valued(k, parse_value(k.str + 1, CStr(<<CH_COMMA, CH_RBRACE>>), k.m))
    IN  IF Deref(str) = CH_RBRACE
        THEN [str |-> str + 1, m |-> SetType(m, obj, "OBJECT")]
        ELSE IF Deref(str + 1) = CH_RBRACE
        THEN [str |-> str + 2, m |-> SetType(Rd(m, str + 1), obj, "OBJECT")]
        ELSE named(parse_value(str + 1, CStr(<<CH_COLON>>), m))

\* lines 271-302: name and value are NULL at the head of every iteration
parse_object_loop(str, obj, m0) ==
    LET m == Rd(m0, str)
        valued(k, v) ==
            IF v.str = NULL
            THEN parse_object_error(obj, k.obj, NULL, v.m)
            ELSE parse_object_loop(v.str, obj, parse_object_put(obj, k.obj, v.obj, v.m))
        named(k) ==
            IF k.str = NULL THEN parse_object_error(obj, NULL, NULL, k.m)
            ELSE IF k.m.heap[k.obj].type # "STRING"
            THEN parse_object_error(obj, k.obj, NULL, k.m)
            ELSE valued(k, parse_value(k.str + 1, CStr(<<CH_COMMA, CH_RBRACE>>), k.m))
    IN  IF Deref(str) = CH_RBRACE
        THEN [str |-> str + 1, m |-> SetType(m, obj, "OBJECT")]
        ELSE named(parse_value(str + 1, CStr(<<CH_COLON>>), m))

parse_object(str, obj, m) ==
    LET scan(m1) == parse_object_loop(str, obj, [m1 EXCEPT !.heap[obj].ptr = LastPtr(m1)])
    IN  scan(pa_hashmap_new_full(m))

\* lines 349-352
parse_array_error(obj, m) ==
    [str |-> NULL,
     m |-> [pa_idxset_free(m, m.heap[obj].ptr) EXCEPT !.heap[obj].ptr = NULL]]

parse_array_no_skip(str, m0) == [str |-> str, m |-> Rd(m0, str)]

\* lines 326-327
RECURSIVE parse_array_skip(_, _)
parse_array_skip(str, m0) ==
    LET m == Rd(m0, str)
    IN  IF is_whitespace(Deref(str)) THEN parse_array_skip(str + 1, m)
        ELSE [str |-> str, m |-> m]

RECURSIVE parse_array_loop(_, _, _)

parse_array_loop_no_break(str, obj, m0) ==
    LET m == Rd(m0, str)
        done(s, mm) == [str |-> s + 1, m |-> SetType(mm, obj, "ARRAY")]
        valued(v) ==
            IF v.str = NULL THEN parse_array_error(obj, v.m)
            ELSE parse_array_loop(v.str, obj,
                     pa_idxset_put(v.m, v.m.heap[obj].ptr, v.obj))
        skipped(w) ==
            valued(parse_value(w.str, CStr(<<CH_COMMA, CH_RBRACKET>>), w.m))
    IN  IF Deref(str) = CH_RBRACKET THEN done(str, m)
        ELSE skipped(parse_array_skip(str + 1, m))

\* lines 321-347
parse_array_loop(str, obj, m0) ==
    LET m == Rd(m0, str)
        done(s, mm) == [str |-> s + 1, m |-> SetType(mm, obj, "ARRAY")]
        valued(v) ==
            IF v.str = NULL THEN parse_array_error(obj, v.m)
            ELSE parse_array_loop(v.str, obj,
                     pa_idxset_put(v.m, v.m.heap[obj].ptr, v.obj))
        skipped(w) ==
            IF Deref(w.str) = CH_RBRACKET THEN done(w.str, w.m)
            ELSE valued(parse_value(w.str, CStr(<<CH_COMMA, CH_RBRACKET>>), w.m))
    IN  IF Deref(str) = CH_RBRACKET THEN done(str, m)
        ELSE skipped(parse_array_skip(str + 1, m))

parse_array(str, obj, m) ==
    LET scan(m1) == parse_array_loop(str, obj, [m1 EXCEPT !.heap[obj].ptr = LastPtr(m1)])
    IN  scan(pa_idxset_new(m))

\* the record parse_value leaves in the log when it returns
Log(m, end, fin, stop, ok) ==
    [m EXCEPT !.log = Append(@, [end |-> end, fin |-> fin, stop |-> stop, ok |-> ok])]

\* lines 421-423
parse_value_error(o, m) ==
    [str |-> NULL, obj |-> NULL, m |-> pa_json_object_unref(m, o)]

\* lines 373-390: the production the byte under the cursor selects
parse_value_production(str, o, m) ==
    LET c == Deref(str)
    IN  CASE c = CH_n -> parse_null(str, o, m)
          [] c = CH_t \/ c = CH_f -> parse_boolean(str, o, m)
          [] c = CH_QUOTE -> parse_string(str, o, m)
          [] is_digit(c) \/ c = CH_MINUS -> parse_number(str, o, m)
          [] c = CH_LBRACE -> parse_object(str, o, m)
          [] c = CH_LBRACKET -> parse_array(str, o, m)
          [] OTHER -> [str |-> NULL, m |-> m]

finish_accepts_garbage(c) == is_whitespace(c) \/ c = CH_u + 3

\* lines 401-407: in FINISH a whitespace byte is consumed, any other is an error
finish_accepts(c) == is_whitespace(c)

\* lines 368-419; fin is the cursor at which FINISH was entered, 0 in INIT
RECURSIVE parse_value_loop(_, _, _, _, _, _)
parse_value_loop(str, end, o, state, fin, m0) ==
    LET m == Rd(m0, str)
        c == Deref(str)
        produced(r) ==
            IF r.str = NULL
            THEN parse_value_error(o, Log(r.m, end, 0, str, FALSE))
            ELSE parse_value_loop(r.str, end, o, "FINISH", r.str, r.m)
    IN  IF is_end(c, end)
        THEN IF m.heap[o].type = "INIT"
             THEN parse_value_error(o, Log(m, end, fin, str, FALSE))
             ELSE [str |-> str, obj |-> o, m |-> Log(m, end, fin, str, TRUE)]
        ELSE IF state = "INIT"
        THEN IF is_whitespace(c) THEN parse_value_loop(str + 1, end, o, "INIT", 0, m)
             ELSE produced(parse_value_production(str, o, m))
        ELSE IF finish_accepts(c) THEN parse_value_loop(str + 1, end, o, "FINISH", fin, m)
             ELSE parse_value_error(o, Log(m, end, fin, str, FALSE))

parse_value(str, end, m) ==
    LET scan(n) == parse_value_loop(str, end, n.obj, "INIT", 0, n.m)
    IN  scan(json_object_new(m))

\* lines 427-444; the text starts at index 1
pa_json_parse(m) ==
    LET parsed(r) ==
            IF r.str = NULL THEN [root |-> NULL, m |-> r.m]
            ELSE IF Deref(r.str) # NUL
            THEN [root |-> NULL, m |-> pa_json_object_unref(r.m, r.obj)]
            ELSE [root |-> r.obj, m |-> r.m]
    IN  parsed(parse_value(1, NullStr, m))

(***************************************************************************)
(* The texts given to pa_json_parse.                                       *)
(***************************************************************************)
MaxNodes == 3
MaxNumLen == 5
MaxStrLen == 4

\* bytes of the texts that the source does not name
CH_1 == CH_0 + 1
CH_2 == CH_0 + 2
CH_3 == CH_0 + 3
CH_4 == CH_0 + 4
CH_5 == CH_0 + 5
CH_x == CH_u + 3
CH_DEL == PRINT_MAX + 1

Q(cs) == <<CH_QUOTE>> \o cs \o <<CH_QUOTE>>

Scalars == {<<CH_1>>, Q(<<CH_b>>)}

Keys == {Q(<<CH_a>>), Q(<<CH_b>>)}

\* the well-formed texts by number of nodes n (a scalar, an array, an object),
\* built level by level: tab[k] holds, for k nodes, the values v, the
\* comma-separated element lists e and the member lists m
Level(tab, n) ==
    LET v == IF n = 1
             THEN Scalars \cup {<<CH_LBRACKET, CH_RBRACKET>>}
             ELSE {<<CH_LBRACKET>> \o e \o <<CH_RBRACKET>> : e \in tab[n - 1].e}
                  \cup {<<CH_LBRACE>> \o e \o <<CH_RBRACE>> : e \in tab[n - 1].m}
    IN  [v |-> v,
         e |-> v \cup UNION {{a \o <<CH_COMMA>> \o r : a \in tab[k].v, r \in tab[n - k].e} :
                             k \in 1..(n - 1)},
         m |-> {k \o <<CH_COLON>> \o x : k \in Keys, x \in v}
               \cup UNION {{k \o <<CH_COLON>> \o x \o <<CH_COMMA>> \o r :
                               k \in Keys, x \in tab[j].v, r \in tab[n - j].m} :
                           j \in 1..(n - 1)}]

RECURSIVE BuildTexts(_, _)
BuildTexts(tab, n) ==
    IF n > MaxNodes THEN tab ELSE BuildTexts(Append(tab, Level(tab, n)), n + 1)

Texts == LET tab == BuildTexts(<<>>, 1) IN UNION {tab[n].v : n \in 1..MaxNodes}

EditChars == {CH_SPACE, CH_x, CH_COLON, CH_COMMA, CH_RBRACKET, CH_RBRACE}

\* a text and the texts one edit away from it: a byte inserted, a byte
\* deleted, the text cut short
Edits(t) ==
    {t}
    \cup {SubSeq(t, 1, i) \o <<c>> \o SubSeq(t, i + 1, Len(t)) :
              i \in 0..Len(t), c \in EditChars}
    \cup {Remove(t, i) : i \in 1..Len(t)}
    \cup {SubSeq(t, 1, i) : i \in 0..Len(t)}

\* the texts the specification names
EX_42_x == <<CH_4, CH_2, CH_SPACE, CH_x>>

EX_42_ws == <<CH_4, CH_2, CH_SPACE, CH_SPACE, CH_SPACE>>

EX_roundtrip ==
    <<CH_LBRACE>> \o Q(<<CH_a>>) \o <<CH_COLON, CH_1, CH_COMMA>> \o Q(<<CH_b>>)
    \o <<CH_COLON, CH_LBRACKET>> \o LIT_true \o <<CH_COMMA>> \o LIT_false
    \o <<CH_COMMA>> \o LIT_null \o <<CH_RBRACKET, CH_RBRACE>>

EX_dupkeys ==
    <<CH_LBRACE>> \o Q(<<CH_a>>) \o <<CH_COLON, CH_1, CH_COMMA>> \o Q(<<CH_a>>)
    \o <<CH_COLON>> \o Q(<<CH_b>>) \o <<CH_RBRACE>>

Examples ==
    {EX_42_x, EX_42_ws, EX_roundtrip, EX_dupkeys,
     <<CH_LBRACKET, CH_SPACE, CH_RBRACKET>>,
     <<CH_LBRACE, CH_1, CH_COLON, CH_2, CH_RBRACE>>,
     <<CH_LBRACKET, CH_1, CH_COMMA, CH_2>>,
     <<CH_LBRACE, CH_RBRACE>>}

\* ret: the last accessor call of the caller and what it returned
NoCall == [fn |-> "none"]

\* cli: the call of pa_cli_command_execute in progress, if there is one
NoCli == [pc |-> "none"]

Start ==
    /\ mem = EmptyMachine
    /\ root = NULL
    /\ phase = "start"
    /\ ret = NoCall
    /\ cli = NoCli

EX_number_key ==
    <<CH_LBRACE>> \o Q(<<CH_a>>) \o <<CH_COLON, CH_1, CH_COMMA, CH_2, CH_COLON, CH_3, CH_RBRACE>>

\* objects whose text in key position is not a string
KeyExamples ==
    {<<CH_LBRACE>> \o k \o <<CH_COLON, CH_1, CH_RBRACE>> :
         k \in {<<CH_1>>, LIT_true, LIT_null, <<CH_LBRACKET, CH_RBRACKET>>,
                <<CH_LBRACE>> \o Q(<<CH_a>>) \o <<CH_COLON, CH_1, CH_RBRACE>>,
                <<>>, <<CH_x>>}}
    \cup {EX_number_key}

\* arrays without elements, and arrays with commas that no element precedes
\* or follows
EX_empty == <<CH_LBRACKET, CH_RBRACKET>>

EX_empty_ws == <<CH_LBRACKET, CH_SPACE, CH_TAB, CH_LF, CH_CR, CH_RBRACKET>>

EmptyArrayExamples ==
    {EX_empty, EX_empty_ws, <<CH_LBRACKET, CH_SPACE, CH_RBRACKET>>,
     <<CH_LBRACKET>> \o EX_empty \o <<CH_RBRACKET>>,
     <<CH_LBRACKET>> \o EX_empty_ws \o <<CH_RBRACKET>>,
     <<CH_LBRACKET, CH_1, CH_COMMA>> \o EX_empty_ws \o <<CH_RBRACKET>>,
     <<CH_LBRACE>> \o Q(<<CH_a>>) \o <<CH_COLON>> \o EX_empty \o <<CH_RBRACE>>,
     <<CH_LBRACE>> \o Q(<<CH_a>>) \o <<CH_COLON>> \o EX_empty_ws \o <<CH_RBRACE>>}

\* the literals null, true and false, whole and cut short, at the top level
\* and nested
EX_bad_false == <<CH_LBRACKET, CH_f, CH_a, CH_l, CH_s, CH_RBRACKET>>

LiteralExamples ==
    {LIT_null, LIT_true, LIT_false, EX_bad_false,
     <<CH_t>>, <<CH_f>>, <<CH_n>>,
     <<CH_t, CH_r, CH_u>>, <<CH_t, CH_r, CH_u, CH_x>>, <<CH_n, CH_u, CH_l>>,
     <<CH_LBRACKET, CH_f, CH_RBRACKET>>, <<CH_LBRACKET, CH_t, CH_RBRACKET>>,
     <<CH_LBRACKET, CH_n, CH_RBRACKET>>,
     <<CH_LBRACKET>> \o LIT_true \o <<CH_COMMA, CH_f, CH_RBRACKET>>,
     <<CH_LBRACE>> \o Q(<<CH_a>>) \o <<CH_COLON, CH_t, CH_RBRACE>>,
     <<CH_LBRACE>> \o Q(<<CH_a>>) \o <<CH_COLON>> \o LIT_false \o <<CH_RBRACE>>}

\* objects without members, and objects with a comma that no member follows
EX_empty_object == <<CH_LBRACE, CH_RBRACE>>

EX_empty_object_ws == <<CH_LBRACE, CH_SPACE, CH_TAB, CH_LF, CH_CR, CH_RBRACE>>

EX_object_trailing_comma ==
    <<CH_LBRACE>> \o Q(<<CH_a>>) \o <<CH_COLON, CH_1, CH_COMMA, CH_RBRACE>>

EmptyObjectExamples ==
    {EX_empty_object, EX_empty_object_ws, EX_object_trailing_comma,
     <<CH_LBRACE, CH_SPACE, CH_RBRACE>>,
     <<CH_LBRACKET>> \o EX_empty_object \o <<CH_RBRACKET>>,
     <<CH_LBRACE>> \o Q(<<CH_a>>) \o <<CH_COLON>> \o EX_empty_object \o <<CH_RBRACE>>,
     <<CH_LBRACE>> \o Q(<<CH_a>>) \o <<CH_COLON, CH_1, CH_COMMA, CH_SPACE, CH_RBRACE>>,
     <<CH_LBRACE>> \o Q(<<CH_a>>) \o <<CH_COLON, CH_1, CH_COMMA>> \o Q(<<CH_b>>)
         \o <<CH_COLON, CH_2, CH_COMMA, CH_RBRACE>>}

\* arrays whose last element a comma follows, and arrays with a comma that
\* no element precedes
EX_trailing_comma == <<CH_LBRACKET, CH_1, CH_COMMA, CH_RBRACKET>>

EX_trailing_comma_ws ==
    <<CH_LBRACKET, CH_1, CH_COMMA, CH_SPACE, CH_2, CH_COMMA, CH_SPACE, CH_RBRACKET>>

EX_only_comma == <<CH_LBRACKET, CH_COMMA, CH_RBRACKET>>

EX_double_comma == <<CH_LBRACKET, CH_1, CH_COMMA, CH_COMMA, CH_2, CH_RBRACKET>>

TrailingCommaAccepted ==
    {EX_trailing_comma, EX_trailing_comma_ws,
     <<CH_LBRACKET>> \o EX_trailing_comma \o <<CH_COMMA, CH_RBRACKET>>,
     <<CH_LBRACKET>> \o Q(<<CH_a>>) \o <<CH_COMMA>> \o LIT_true \o <<CH_COMMA, CH_TAB, CH_RBRACKET>>,
     <<CH_LBRACE>> \o Q(<<CH_a>>) \o <<CH_COLON>> \o EX_trailing_comma \o <<CH_RBRACE>>}

TrailingCommaRejected ==
    {EX_only_comma, EX_double_comma,
     <<CH_LBRACKET, CH_SPACE, CH_COMMA, CH_RBRACKET>>,
     <<CH_LBRACKET, CH_COMMA, CH_1, CH_RBRACKET>>,
     <<CH_LBRACKET, CH_1, CH_COMMA, CH_2, CH_COMMA, CH_COMMA, CH_RBRACKET>>,
     <<CH_LBRACKET, CH_1, CH_COMMA, CH_SPACE, CH_COMMA, CH_RBRACKET>>}

Init ==
    /\ \/ \E t \in Texts : input \in Edits(t)
       \/ input \in Examples \cup KeyExamples \cup EmptyArrayExamples \cup LiteralExamples
       \/ input \in EmptyObjectExamples \cup TrailingCommaAccepted \cup TrailingCommaRejected
    /\ Start

\* number literals: every text of at most MaxNumLen bytes over NumChars
NumChars == {CH_MINUS, CH_0, CH_1, CH_DOT, CH_e, CH_E, CH_PLUS}

EX_42 == <<CH_4, CH_2>>

EX_3_0 == <<CH_3, CH_DOT, CH_0>>

EX_m0_5e2 == <<CH_MINUS, CH_0, CH_DOT, CH_5, CH_e, CH_2>>

NumExamples ==
    {EX_42, EX_3_0, EX_m0_5e2, <<CH_MINUS, CH_DOT, CH_5>>, <<CH_MINUS, CH_e, CH_1>>}

InitNumber ==
    /\ \/ \E k \in 0..MaxNumLen : input \in [1..k -> NumChars]
       \/ input \in NumExamples
    /\ Start

\* string literals: an opening quote followed by every text of at most
\* MaxStrLen bytes over StrChars, at the top level, as an array element and
\* as a member value
StrChars == {CH_QUOTE, CH_BACKSLASH, CH_SLASH, CH_n, CH_t, CH_u, CH_TAB, CH_DEL}

StrContexts ==
    {[pre |-> <<>>, post |-> <<>>],
     [pre |-> <<CH_LBRACKET>>, post |-> <<CH_RBRACKET>>],
     [pre |-> <<CH_LBRACE>> \o Q(<<CH_a>>) \o <<CH_COLON>>, post |-> <<CH_RBRACE>>]}

StrExamples ==
    {<<CH_QUOTE, CH_BACKSLASH, c, CH_QUOTE>> : c \in {CH_b, CH_f, CH_r, CH_a}}
    \cup {<<CH_QUOTE, CH_BACKSLASH, CH_u, CH_0, CH_0, CH_4, CH_1, CH_QUOTE>>,
          <<CH_QUOTE, CH_a, CH_BACKSLASH, CH_BACKSLASH, CH_BACKSLASH, CH_n, CH_QUOTE>>,
          <<CH_QUOTE, PRINT_MAX + 2, CH_QUOTE>>}

InitString ==
    /\ \/ \E k \in 0..MaxStrLen : \E s \in [1..k -> StrChars] : \E c \in StrContexts :
              input = c.pre \o <<CH_QUOTE>> \o s \o c.post
       \/ input \in StrExamples
    /\ Start

\* integer literals of up to MaxDigits digits, with and without a sign: the
\* runs over the digits 4 and 9, of which those of ten digits and more pass
\* 2^32, and literals around 2^31 and 2^32
MaxDigits == 10

Dec(ds) == [i \in 1..Len(ds) |-> CH_0 + ds[i]]

EX_2p32 == Dec(<<4, 2, 9, 4, 9, 6, 7, 2, 9, 6>>)

EX_2p32_less_1 == Dec(<<4, 2, 9, 4, 9, 6, 7, 2, 9, 5>>)

EX_2p32_plus_5 == Dec(<<4, 2, 9, 4, 9, 6, 7, 3, 0, 1>>)

EX_2p31 == Dec(<<2, 1, 4, 7, 4, 8, 3, 6, 4, 8>>)

EX_2p31_plus_1 == Dec(<<2, 1, 4, 7, 4, 8, 3, 6, 4, 9>>)

EX_eleven_nines == Dec(<<9, 9, 9, 9, 9, 9, 9, 9, 9, 9, 9>>)

WrapExamples ==
    {EX_2p32, EX_2p32_less_1, EX_2p32_plus_5, EX_2p31, EX_2p31_plus_1,
     EX_eleven_nines, Dec(<<0>>), Dec(<<2, 1, 4, 7, 4, 8, 3, 6, 4, 7>>)}

InitWrap ==
    /\ \E sign \in {<<>>, <<CH_MINUS>>} :
           \/ \E k \in 1..MaxDigits : \E ds \in [1..k -> {4, 9}] : input = sign \o Dec(ds)
           \/ \E t \in WrapExamples : input = sign \o t
    /\ Start

\* texts that end inside a production: every text of CursorTexts cut short
\* at every index, as it is and with one more byte that makes a production
\* look at the byte after it
EX_escapes ==
    <<CH_QUOTE, CH_a, CH_BACKSLASH, CH_QUOTE, CH_b, CH_BACKSLASH, CH_BACKSLASH,
      CH_BACKSLASH, CH_n, CH_QUOTE>>

EX_number == <<CH_MINUS, CH_1, CH_0, CH_DOT, CH_2, CH_5, CH_e, CH_MINUS, CH_3>>

EX_spaced ==
    <<CH_SPACE, CH_LBRACKET, CH_SPACE>> \o Q(<<CH_x>>) \o <<CH_SPACE, CH_COMMA, CH_SPACE, CH_LBRACE, CH_SPACE>>
    \o Q(<<CH_a>>) \o <<CH_SPACE, CH_COLON, CH_SPACE>> \o LIT_null
    \o <<CH_SPACE, CH_RBRACE, CH_SPACE, CH_RBRACKET, CH_SPACE>>

CursorTexts == {EX_roundtrip, EX_escapes, EX_number, EX_spaced}

CutChars ==
    {CH_BACKSLASH, CH_QUOTE, CH_MINUS, CH_0, CH_DOT, CH_e, CH_PLUS, CH_LBRACE,
     CH_LBRACKET, CH_COMMA, CH_COLON, CH_t, CH_f, CH_n, CH_SPACE}

Cuts(t) ==
    {SubSeq(t, 1, i) : i \in 0..Len(t)}
    \cup {SubSeq(t, 1, i) \o <<c>> : i \in 0..Len(t), c \in CutChars}

InitCursor ==
    /\ \E t \in CursorTexts : input \in Cuts(t)
    /\ Start

\* the texts whose tree the accessors are called on: the well-formed texts and
\* a value of every type
EX_null_member == <<CH_LBRACE>> \o Q(<<CH_a>>) \o <<CH_COLON>> \o LIT_null \o <<CH_RBRACE>>

AccessExamples ==
    {LIT_true, LIT_false, LIT_null, EX_42, EX_3_0, EX_roundtrip, EX_dupkeys,
     EX_null_member}

InitAccess ==
    /\ input \in Texts \cup AccessExamples
    /\ Start

\* pa_json_parse(input)
PaJsonParse ==
    /\ phase = "start"
    /\ LET returned(r) == mem' = r.m /\ root' = r.root
       IN  returned(pa_json_parse(EmptyMachine))
    /\ phase' = "parsed"
    /\ UNCHANGED <<input, ret, cli>>

\* pa_json_object_unref(root), the caller releasing what the parse returned
PaJsonObjectUnref ==
    /\ phase \in {"parsed", "read"}
    /\ root # NULL
    /\ mem' = pa_json_object_unref(mem, root)
    /\ phase' = "released"
    /\ UNCHANGED <<input, root, ret, cli>>

\* the values of the tree the caller holds, and the arguments it passes to
\* the accessors
Values == {o \in 1..Len(mem.heap) : mem.heap[o].kind = "json" /\ mem.heap[o].frees = 0}

Names == {<<CH_a>>, <<CH_b>>, <<CH_a, CH_b>>, <<CH_x>>}

Indexes == (-1)..MaxNodes

\* an accessor is called on a value of the tree, between the parse and the
\* release; the accessors take a const pa_json_object and assign nothing.
\* One call is kept per behaviour: a call changes nothing but ret, so a
\* second call reaches no state that a first call does not reach.
Called(fn, o, arg, val) ==
    /\ phase = "parsed"
    /\ root # NULL
    /\ ret' = [fn |-> fn, o |-> o, arg |-> arg, val |-> val]
    /\ phase' = "read"
    /\ UNCHANGED <<input, mem, root, cli>>

PaJsonObjectGetInt ==
    \E o \in Values : Called("get_int", o, NULL, pa_json_object_get_int(mem, o))

PaJsonObjectGetDouble ==
    \E o \in Values : Called("get_double", o, NULL, pa_json_object_get_double(mem, o))

PaJsonObjectGetBool ==
    \E o \in Values : Called("get_bool", o, NULL, pa_json_object_get_bool(mem, o))

PaJsonObjectGetString ==
    \E o \in Values : Called("get_string", o, NULL, pa_json_object_get_string(mem, o))

PaJsonObjectGetObjectMember ==
    \E o \in Values : \E name \in Names :
        Called("get_object_member", o, name,
               pa_json_object_get_object_member(mem, o, name))

PaJsonObjectGetArrayLength ==
    \E o \in Values :
        Called("get_array_length", o, NULL, pa_json_object_get_array_length(mem, o))

PaJsonObjectGetArrayMember ==
    \E o \in Values : \E index \in Indexes :
        Called("get_array_member", o, index,
               pa_json_object_get_array_member(mem, o, index))

Next == PaJsonParse \/ PaJsonObjectUnref

\* the caller that also reads the tree it was given
NextAccess ==
    \/ Next
    \/ PaJsonObjectGetInt
    \/ PaJsonObjectGetDouble
    \/ PaJsonObjectGetBool
    \/ PaJsonObjectGetString
    \/ PaJsonObjectGetObjectMember
    \/ PaJsonObjectGetArrayLength
    \/ PaJsonObjectGetArrayMember

Spec == Init /\ [][Next]_vars

SpecNumber == InitNumber /\ [][Next]_vars

SpecString == InitString /\ [][Next]_vars

SpecAccess == InitAccess /\ [][NextAccess]_vars

SpecWrap == InitWrap /\ [][Next]_vars

SpecCursor == InitCursor /\ [][Next]_vars

(***************************************************************************)
(* The command interpreter of cli-command.c (src/unnamed/part_000).  A     *)
(* string is a sequence of bytes and a pointer into it an index, the NUL   *)
(* being at index Len + 1.  The interpreter state st holds *fail, *verbose *)
(* and trace, one entry per pa_cli_command_execute_line call in the order  *)
(* of the returns:                                                         *)
(*   line    the line given to the call                                    *)
(*   depth   0 for a line of the script, n for a line of a file included   *)
(*           at depth n - 1                                                *)
(*   kind    what the line was taken for                                   *)
(*   failed  whether the line failed                                       *)
(*   fail    *fail when the call returned                                  *)
(*   ret     what the call returned                                        *)
(***************************************************************************)
At(s, i) == IF i >= 1 /\ i <= Len(s) THEN s[i] ELSE NUL

\* lines 121-122
whitespace == <<CH_SPACE, CH_TAB, CH_LF, CH_CR>>

linebreak == <<CH_LF, CH_CR>>

InStr(c, set) == \E k \in 1..Len(set) : set[k] = c

\* strspn(s + i, accept), s + i being the string from index i
RECURSIVE strspn(_, _, _)
strspn(s, i, accept) ==
    IF i <= Len(s) /\ InStr(s[i], accept) THEN 1 + strspn(s, i + 1, accept) ELSE 0

RECURSIVE strcspn(_, _, _)
strcspn(s, i, reject) ==
    IF i <= Len(s) /\ ~InStr(s[i], reject) THEN 1 + strcspn(s, i + 1, reject) ELSE 0

\* strcmp(s + i, lit): 0 when equal
strcmp(s, i, lit) == IF SubSeq(s, i, Len(s)) = lit THEN 0 ELSE 1

\* strncmp(s + i, lit, l): 0 when the first l bytes are equal
strncmp(s, i, lit, l) ==
    IF \A k \in 0..(l - 1) : At(s, i + k) = At(lit, 1 + k) THEN 0 ELSE 1

\* lines 585-588 and 600
fail_meta == <<CH_DOT, CH_f, CH_a, CH_i, CH_l>>

nofail_meta == <<CH_DOT, CH_n, CH_o>> \o Tail(fail_meta)

verbose_meta == <<CH_DOT, CH_v, CH_e, CH_r, CH_b, CH_o, CH_s, CH_e>>

noverbose_meta == <<CH_DOT, CH_n, CH_o>> \o Tail(verbose_meta)

include_meta == <<CH_DOT, CH_i, CH_n, CH_c, CH_l, CH_u, CH_d, CH_e>>

\* lines 86-119: the entries exit, stat, ls, list and load of the table, in
\* its order
commands ==
    <<[name |-> <<CH_e, CH_x, CH_i, CH_t>>, proc |-> "exit", args |-> 1],
      [name |-> <<CH_s, CH_t, CH_a, CH_t>>, proc |-> "stat", args |-> 1],
      [name |-> <<CH_l, CH_s>>, proc |-> "info", args |-> 1],
      [name |-> <<CH_l, CH_i, CH_s, CH_t>>, proc |-> "info", args |-> 1],
      [name |-> <<CH_l, CH_o, CH_a, CH_d>>, proc |-> "load", args |-> 3]>>

\* tokenizer.c: at most args tokens, split at whitespace, the last token
\* taking the rest of the string
RECURSIVE pa_tokenizer_new(_, _, _)
pa_tokenizer_new(s, i, args) ==
    IF At(s, i) = NUL \/ args = 0 THEN <<>>
    ELSE IF args = 1 THEN <<SubSeq(s, i, Len(s))>>
    ELSE LET l == strcspn(s, i, whitespace)
         IN  <<SubSeq(s, i, i + l - 1)>>
             \o pa_tokenizer_new(s, i + l + strspn(s, i + l, whitespace), args - 1)

\* the i-th token as a string, the NULL string when there is none
pa_tokenizer_get(t, i) == IF i < Len(t) THEN CStr(t[i + 1]) ELSE NullStr

\* the modules that pa_module_load finds
Modules == {<<CH_a>>}

pa_module_load(name) == name \in Modules

\* lines 232-253
pa_cli_command_load(t) ==
    IF pa_tokenizer_get(t, 1).null THEN -1
    ELSE IF ~pa_module_load(pa_tokenizer_get(t, 1).chars) THEN -1
    ELSE 0

\* command->proc(c, t, buf, fail, verbose): no handler assigns *fail or
\* *verbose; exit (134-138), stat (212-216) and info (218-230) return 0
proc(p, t) ==
    CASE p = "load" -> pa_cli_command_load(t)
      [] OTHER -> 0

\* the files that fopen finds, by name
Files ==
    (<<CH_a>> :> fail_meta \o <<CH_LF, CH_x, CH_LF>> \o commands[1].name \o <<CH_LF>>)
    @@ (<<CH_b>> :> nofail_meta \o <<CH_CR, CH_LF>> \o commands[5].name
                    \o <<CH_LF, CH_LF, CH_HASH, CH_c, CH_LF>> \o verbose_meta \o <<CH_LF>>
                    \o commands[3].name)
    @@ (<<CH_a, CH_b>> :> include_meta \o <<CH_SPACE, CH_b, CH_LF, CH_x, CH_LF>>)

Returned(st, depth, s, kind, failed, r) ==
    [ret |-> r,
     st |-> [st EXCEPT !.trace =
                 Append(@, [line |-> s, depth |-> depth, kind |-> kind,
                            failed |-> failed, fail |-> st.fail, ret |-> r])]]

RECURSIVE pa_cli_command_execute_line(_, _, _)
RECURSIVE pa_cli_command_execute_file(_, _, _)

\* lines 619-632, k the index of the entry found in the table, 0 if none
RECURSIVE command_lookup(_, _, _, _)
command_lookup(s, cs, l, k) ==
    IF k > Len(commands) THEN 0
    ELSE IF Len(commands[k].name) = l /\ strncmp(s, cs, commands[k].name, l) = 0 THEN k
    ELSE command_lookup(s, cs, l, k + 1)

execute_line_command_strict(s, cs, depth, st) ==
    LET called(k) ==
            LET ran(r) ==
                    IF r < 0 /\ st.fail # 0 THEN Returned(st, depth, s, "proc", TRUE, -1)
                    ELSE Returned(st, depth, s, "proc", r < 0, 0)
            IN  IF k # 0
                THEN ran(proc(commands[k].proc, pa_tokenizer_new(s, cs, commands[k].args)))
                ELSE Returned(st, depth, s, "unknown", TRUE, -1)
    IN  called(command_lookup(s, cs, strcspn(s, cs, whitespace), 1))

\* lines 613-640, cs being the first byte of the line that is not whitespace
execute_line_command(s, cs, depth, st) ==
    LET called(k) ==
            LET ran(r) ==
                    IF r < 0 /\ st.fail # 0 THEN Returned(st, depth, s, "proc", TRUE, -1)
                    ELSE Returned(st, depth, s, "proc", r < 0, 0)
            IN  IF k # 0
                THEN ran(proc(commands[k].proc, pa_tokenizer_new(s, cs, commands[k].args)))
                ELSE IF st.fail # 0 THEN Returned(st, depth, s, "unknown", TRUE, -1)
                ELSE Returned(st, depth, s, "unknown", TRUE, 0)
    IN  called(command_lookup(s, cs, strcspn(s, cs, whitespace), 1))

\* lines 599-611: .include and the meta commands that are none
execute_line_include(s, cs, depth, st) ==
    LET l == strcspn(s, cs, whitespace)
        included(r) ==
            IF r.ret < 0 /\ r.st.fail # 0
            THEN Returned(r.st, depth, s, "include", TRUE, -1)
            ELSE Returned(r.st, depth, s, "include", r.failed, 0)
    IN  IF l = Len(include_meta) /\ strncmp(s, cs, include_meta, l) = 0
        THEN included(pa_cli_command_execute_file(
                          SubSeq(s, cs + l + strspn(s, cs + l, whitespace), Len(s)),
                          depth + 1, st))
        ELSE IF st.fail # 0 THEN Returned(st, depth, s, "invalid_meta", TRUE, -1)
        ELSE Returned(st, depth, s, "invalid_meta", TRUE, 0)

\* lines 584-612
execute_line_meta(s, cs, depth, st) ==
    IF strcmp(s, cs, verbose_meta) = 0
    THEN Returned([st EXCEPT !.verbose = 1], depth, s, "verbose", FALSE, 0)
    ELSE IF strcmp(s, cs, noverbose_meta) = 0
    THEN Returned([st EXCEPT !.verbose = 0], depth, s, "noverbose", FALSE, 0)
    ELSE IF strcmp(s, cs, fail_meta) = 0
    THEN Returned([st EXCEPT !.fail = 1], depth, s, "fail", FALSE, 0)
    ELSE IF strcmp(s, cs, nofail_meta) = 0
    THEN Returned([st EXCEPT !.fail = 0], depth, s, "nofail", FALSE, 0)
    ELSE execute_line_include(s, cs, depth, st)

\* lines 577-643
pa_cli_command_execute_line(s, depth, st) ==
    LET at(cs) ==
            IF At(s, cs) = CH_HASH \/ At(s, cs) = NUL
            THEN Returned(st, depth, s, "skip", FALSE, 0)
            ELSE IF At(s, cs) = CH_DOT THEN execute_line_meta(s, cs, depth, st)
            ELSE execute_line_command(s, cs, depth, st)
    IN  at(1 + strspn(s, 1, whitespace))

\* fgets(line, sizeof(line), f): the bytes of the file from pos up to and
\* with the next line feed (the lines of Files are shorter than the buffer)
fgets(content, pos) ==
    LET l == strcspn(content, pos, <<CH_LF>>)
    IN  SubSeq(content, pos, IF At(content, pos + l) = CH_LF THEN pos + l ELSE pos + l - 1)

\* lines 661-667
RECURSIVE execute_file_loop(_, _, _, _)
execute_file_loop(content, pos, depth, st) ==
    IF pos > Len(content) THEN [ret |-> 0, st |-> st, failed |-> FALSE]
    ELSE LET stepped(n, r) ==
                 IF r.ret < 0 /\ r.st.fail # 0
                 THEN [ret |-> -1, st |-> r.st, failed |-> TRUE]
                 ELSE execute_file_loop(content, pos + n, depth, r.st)
             read(line) ==
                 stepped(Len(line),
                         pa_cli_command_execute_line(
                             SubSeq(line, 1, strcspn(line, 1, linebreak)), depth, st))
         IN  read(fgets(content, pos))

\* lines 645-679; failed says whether the file could not be opened or a line
\* of it ended the loop
pa_cli_command_execute_file(fn, depth, st) ==
    IF fn \notin DOMAIN Files
    THEN [ret |-> IF st.fail = 0 THEN 0 ELSE -1, st |-> st, failed |-> TRUE]
    ELSE execute_file_loop(Files[fn], 1, depth, st)

\* the scripts given to pa_cli_command_execute: up to MaxLines lines of
\* LineTexts, each ended or separated by a line break, and the scripts of
\* ScriptExamples
MaxLines == 3

EX_unknown == <<CH_x>>

EX_exit == commands[1].name

EX_include(fn) == include_meta \o <<CH_SPACE>> \o fn

LineTexts ==
    {<<>>, <<CH_SPACE, CH_TAB>>, <<CH_SPACE, CH_HASH>> \o fail_meta,
     fail_meta, nofail_meta, <<CH_SPACE>> \o fail_meta, fail_meta \o <<CH_SPACE>>,
     EX_include(<<CH_a>>), EX_include(<<CH_b>>), EX_include(<<CH_x>>),
     EX_exit, commands[5].name, EX_unknown}

RECURSIVE Join(_)
Join(ls) == IF Len(ls) = 0 THEN <<>> ELSE Head(ls) \o <<CH_LF>> \o Join(Tail(ls))

EX_fail_stops == Join(<<fail_meta, EX_unknown, EX_exit>>)

EX_nofail_goes_on == Join(<<nofail_meta, EX_unknown, EX_exit>>)

ScriptExamples ==
    {EX_fail_stops, EX_nofail_goes_on,
     <<CH_CR, CH_LF>> \o fail_meta \o <<CH_CR, CH_LF, CH_CR, CH_LF>> \o EX_exit,
     Join(<<verbose_meta, noverbose_meta, commands[5].name \o <<CH_SPACE, CH_a>>,
            commands[5].name \o <<CH_SPACE, CH_x>>>>),
     Join(<<EX_include(<<CH_a, CH_b>>), commands[2].name, commands[3].name,
            commands[4].name \o <<CH_s>>>>),
     Join(<<fail_meta, EX_include(<<CH_b>>), EX_unknown, fail_meta, EX_unknown, EX_exit>>),
     fail_meta \o <<CH_LF>> \o include_meta \o <<CH_x, CH_LF>> \o EX_exit}

InitCli ==
    /\ input = <<>>
    /\ mem = EmptyMachine
    /\ root = NULL
    /\ phase = "start"
    /\ ret = NoCall
    /\ \E s \in ScriptExamples
            \cup UNION {{Join(ls) : ls \in [1..n -> LineTexts]} : n \in 1..MaxLines} :
       \E fail \in {0, 1} :
           cli = [pc |-> "loop", s |-> s, p |-> 1, arg_fail |-> fail, fail |-> fail,
                  verbose |-> 0, trace |-> <<>>, result |-> 0]

\* lines 687-697: one round of the loop of pa_cli_command_execute
PaCliCommandExecuteLine ==
    /\ cli.pc = "loop"
    /\ At(cli.s, cli.p) # NUL
    /\ LET l == strcspn(cli.s, cli.p, linebreak)
           stepped(r) ==
               IF r.ret < 0 /\ r.st.fail # 0
               THEN cli' = [cli EXCEPT !.fail = r.st.fail, !.verbose = r.st.verbose,
                                       !.trace = r.st.trace, !.pc = "done",
                                       !.result = -1]
               ELSE cli' = [cli EXCEPT !.fail = r.st.fail, !.verbose = r.st.verbose,
                                       !.trace = r.st.trace,
                                       !.p = cli.p + l + strspn(cli.s, cli.p + l, linebreak)]
       IN  stepped(pa_cli_command_execute_line(
                       SubSeq(cli.s, cli.p, cli.p + l - 1), 0,
                       [fail |-> cli.fail, verbose |-> cli.verbose, trace |-> cli.trace]))
    /\ UNCHANGED <<input, mem, root, phase, ret>>

\* lines 686 and 700: the loop ends at the NUL of the script
PaCliCommandExecuteReturn ==
    /\ cli.pc = "loop"
    /\ At(cli.s, cli.p) = NUL
    /\ cli' = [cli EXCEPT !.pc = "done", !.result = 0]
    /\ UNCHANGED <<input, mem, root, phase, ret>>

NextCli == PaCliCommandExecuteLine \/ PaCliCommandExecuteReturn

SpecCli == InitCli /\ [][NextCli]_vars

(***************************************************************************)
(* The claims.                                                             *)
(***************************************************************************)
Heap == mem.heap

Ptrs == 1..Len(Heap)

Accepted == phase = "parsed" /\ root # NULL

Rejected == phase = "parsed" /\ root = NULL

RECURSIVE SkipWhitespace(_)
SkipWhitespace(j) ==
    IF Deref(j) \in {CH_TAB, CH_LF, CH_CR, CH_SPACE} THEN SkipWhitespace(j + 1) ELSE j

\* C1: in every parse_value call that reached FINISH at cursor fin, the first
\* byte at or after fin that is not whitespace is either a terminator of that
\* call, and the call returns there, or it makes pa_json_parse return NULL;
\* "42 x" fails and "42   " succeeds.
C1_OnlyWhitespaceBeforeTerminator ==
    phase # "start" =>
        /\ \A i \in 1..Len(mem.log) :
               LET e == mem.log[i]
                   j == SkipWhitespace(e.fin)
               IN  e.fin > 0 =>
                       IF is_end(Deref(j), e.end) THEN e.ok /\ e.stop = j
                       ELSE ~e.ok /\ root = NULL
        /\ \A i \in 1..Len(mem.log) :
               mem.log[i].end \in {NullStr, CStr(<<CH_COLON>>),
                                   CStr(<<CH_COMMA, CH_RBRACE>>),
                                   CStr(<<CH_COMMA, CH_RBRACKET>>)}
        /\ (input = EX_42_x => root = NULL)
        /\ (input = EX_42_ws => root # NULL)

\* a nested value was parsed and a byte that is neither whitespace nor its
\* terminator followed it
C1_Witness ==
    /\ Rejected
    /\ \E i \in 1..Len(mem.log) :
           mem.log[i].fin > 0 /\ ~mem.log[i].ok /\ ~mem.log[i].end.null

\* C2: after a successful parse and one pa_json_object_unref of the root,
\* every cell allocated by the parse has been freed exactly once, and at no
\* time is a cell freed twice.
C2_ReleaseFreesAllOnce ==
    /\ \A p \in Ptrs : Heap[p].frees <= 1
    /\ phase = "released" => Len(Heap) > 0 /\ \A p \in Ptrs : Heap[p].frees = 1

\* an object with a repeated key was parsed and released
C2_Witness ==
    /\ phase = "released"
    /\ \E p \in Ptrs : /\ Heap[p].kind = "hashmap"
                       /\ Len(Heap[p].puts) > Len(Heap[p].items)

\* C3: when pa_json_parse returns NULL every cell allocated during the parse
\* has been freed exactly once.
C3_FailureFreesAllOnce ==
    Rejected => \A p \in Ptrs : Heap[p].frees = 1

\* the parse failed inside an object that already held a member
C3_Witness ==
    /\ Rejected
    /\ \E p \in Ptrs : Heap[p].kind = "hashmap" /\ Len(Heap[p].items) > 0
    /\ \E p \in Ptrs : Heap[p].kind = "idxset"

LastPut(puts, k) ==
    CHOOSE j \in 1..Len(puts) :
        puts[j][1] = k /\ \A l \in (j + 1)..Len(puts) : puts[l][1] # k

\* C4: in every object of a successful parse, get_object_member of a key
\* yields the value of the last member of the text with that key.
C4_LastWriteWins ==
    Accepted =>
        /\ \A o \in Ptrs :
               Heap[o].kind = "json" /\ Heap[o].type = "OBJECT" =>
                   LET puts == Heap[Heap[o].ptr].puts
                   IN  \A i \in 1..Len(puts) :
                           pa_json_object_get_object_member(mem, o, puts[i][1])
                               = puts[LastPut(puts, puts[i][1])][2]
        /\ input = EX_dupkeys =>
               LET v == pa_json_object_get_object_member(mem, root, <<CH_a>>)
               IN  /\ v # NULL
                   /\ Heap[v].type = "STRING"
                   /\ Heap[Heap[v].ptr].chars = <<CH_b>>

\* an object was parsed whose text repeats a key with two different values
C4_Witness ==
    /\ Accepted
    /\ \E o \in Ptrs :
           /\ Heap[o].kind = "json" /\ Heap[o].type = "OBJECT"
           /\ LET puts == Heap[Heap[o].ptr].puts
              IN  \E i, j \in 1..Len(puts) :
                      /\ i < j
                      /\ puts[i][1] = puts[j][1]
                      /\ Heap[puts[i][2]].type # Heap[puts[j][2]].type

Digits == CH_0..CH_9

RECURSIVE SkipDigits(_, _)
SkipDigits(s, i) ==
    IF i <= Len(s) /\ s[i] \in Digits THEN SkipDigits(s, i + 1) ELSE i

Is(s, i, cs) == i <= Len(s) /\ s[i] \in cs

\* the grammar of C5; the digit runs after '.' and after the exponent mark are
\* allowed to be empty, the integer part is not
MatchesNumberGrammar(s) ==
    LET i0 == IF Is(s, 1, {CH_MINUS}) THEN 2 ELSE 1
        i1 == IF Is(s, i0, {CH_0}) THEN i0 + 1 ELSE SkipDigits(s, i0)
        i2 == IF Is(s, i1, {CH_DOT}) THEN SkipDigits(s, i1 + 1) ELSE i1
        i3 == IF Is(s, i2, {CH_e, CH_E})
              THEN SkipDigits(s, IF Is(s, i2 + 1, {CH_PLUS, CH_MINUS})
                                 THEN i2 + 2 ELSE i2 + 1)
              ELSE i2
    IN  i1 > i0 /\ i3 = Len(s) + 1

\* C5: a number literal is accepted only if it matches the grammar, whose
\* integer part is a single '0' or a non-empty run of digits.
C5_NumberGrammar ==
    phase # "start" /\ root # NULL => MatchesNumberGrammar(input)

RECURSIVE DigitsValue(_, _)
DigitsValue(s, n) ==
    IF n = 0 THEN 0 ELSE DigitsValue(s, n - 1) * 10 + (s[n] - CH_0)

HasFractionOrExponent(s) == \E i \in 1..Len(s) : s[i] \in {CH_DOT, CH_e, CH_E}

\* the double d equals the integer k
DoubleEquals(d, k) ==
    LET sm == (IF d.neg THEN -1 ELSE 1) * d.mant
    IN  IF d.exp10 >= 0 THEN sm * Pow10(d.exp10) = k
        ELSE sm = k * Pow10(-d.exp10)

\* C6: a parsed number is an Int exactly when its literal has neither a
\* fraction nor an exponent, its value then being sign * integer, and a
\* Double otherwise; "42" is Int 42, "3.0" Double 3.0, "-0.5e2" Double -50.
C6_IntOrDouble ==
    phase # "start" /\ root # NULL =>
        LET v == Heap[root]
            neg == Is(input, 1, {CH_MINUS})
            run == IF neg THEN SubSeq(input, 2, Len(input)) ELSE input
        IN  /\ v.type \in {"INT", "DOUBLE"}
            /\ v.type = "INT" <=> ~HasFractionOrExponent(input)
            /\ v.type = "INT" =>
                   v.int_value = (IF neg THEN -1 ELSE 1) * DigitsValue(run, Len(run))
            /\ input = EX_42 => v.type = "INT" /\ v.int_value = 42
            /\ input = EX_3_0 => v.type = "DOUBLE" /\ DoubleEquals(v.double_value, 3)
            /\ input = EX_m0_5e2 =>
                   v.type = "DOUBLE" /\ DoubleEquals(v.double_value, -50)

\* a literal with an exponent and an integral value was parsed
C6_Witness ==
    /\ Accepted
    /\ Heap[root].type = "DOUBLE"
    /\ ~(\E i \in 1..Len(input) : input[i] = CH_DOT)
    /\ Heap[root].double_value.exp10 > 0

\* the string literal of a text of SpecString: the index of its opening
\* quote, the value parsed from it and the bytes of that value
StrOpen ==
    IF Is(input, 1, {CH_LBRACKET}) THEN 2
    ELSE IF Is(input, 1, {CH_LBRACE}) THEN 6 ELSE 1

TheString ==
    IF Is(input, 1, {CH_LBRACKET}) THEN Heap[Heap[root].ptr].items[1]
    ELSE IF Is(input, 1, {CH_LBRACE}) THEN Heap[Heap[root].ptr].puts[1][2]
    ELSE root

Payload(o) == Heap[Heap[o].ptr].chars

EscapeOf(c) ==
    CASE c = CH_b -> CH_BS
      [] c = CH_f -> CH_FF
      [] c = CH_n -> CH_LF
      [] c = CH_r -> CH_CR
      [] c = CH_t -> CH_TAB
      [] OTHER -> c

\* the items of the literal whose first item is at index i, decoded
RECURSIVE RefDecode(_, _)
RefDecode(s, i) ==
    IF i > Len(s) \/ s[i] = CH_QUOTE THEN <<>>
    ELSE IF s[i] = CH_BACKSLASH /\ i < Len(s)
    THEN <<EscapeOf(s[i + 1])>> \o RefDecode(s, i + 2)
    ELSE <<s[i]>> \o RefDecode(s, i + 1)

\* the index of the closing quote of that literal
RECURSIVE RefClose(_, _)
RefClose(s, i) ==
    IF i > Len(s) \/ s[i] = CH_QUOTE THEN i
    ELSE IF s[i] = CH_BACKSLASH THEN RefClose(s, i + 2)
    ELSE RefClose(s, i + 1)

\* C7: the payload of an accepted string literal is the concatenation, left
\* to right, of its decoded items, one byte per item, and the cursor leaves
\* the literal right after its closing quote.
C7_StringDecoding ==
    Accepted =>
        /\ Heap[TheString].type = "STRING"
        /\ Payload(TheString) = RefDecode(input, StrOpen + 1)
        /\ \E i \in 1..Len(mem.log) :
               mem.log[i].ok /\ mem.log[i].fin = RefClose(input, StrOpen + 1) + 1

\* a literal of a plain byte and an escape was parsed
C7_Witness ==
    /\ Accepted
    /\ Len(Payload(TheString)) >= 2
    /\ \E i \in 1..Len(Payload(TheString)) : Payload(TheString)[i] = CH_LF
    /\ \E i \in 1..Len(Payload(TheString)) : Payload(TheString)[i] = CH_SLASH

\* the literal whose first item is at index i has, before its closing quote: a
\* raw byte outside 0x20..0x7E, a backslash followed by a byte that is none
\* of " \ / b f n r t, or the end of the text
RECURSIVE BadLiteral(_, _)
BadLiteral(s, i) ==
    IF i > Len(s) THEN TRUE
    ELSE IF s[i] = CH_QUOTE THEN FALSE
    ELSE IF s[i] = CH_BACKSLASH
    THEN IF i + 1 > Len(s) THEN TRUE
         ELSE IF s[i + 1] \in {CH_QUOTE, CH_BACKSLASH, CH_SLASH,
                               CH_b, CH_f, CH_n, CH_r, CH_t}
         THEN BadLiteral(s, i + 2)
         ELSE TRUE
    ELSE IF s[i] < 32 \/ s[i] > 126 THEN TRUE
    ELSE BadLiteral(s, i + 1)

\* C8: a string literal with a raw byte outside 0x20..0x7E, a \u escape, an
\* unknown escape or no closing quote makes pa_json_parse return NULL.
C8_BadStringFails ==
    phase # "start" /\ BadLiteral(input, StrOpen + 1) => root = NULL

\* a text that ends right after a backslash inside the literal was rejected
C8_Witness ==
    /\ Rejected
    /\ BadLiteral(input, StrOpen + 1)
    /\ Len(input) >= 3
    /\ input[Len(input)] = CH_BACKSLASH
    /\ input[Len(input) - 1] # CH_BACKSLASH

LiveStrings ==
    {o \in Ptrs : Heap[o].kind = "json" /\ Heap[o].type = "STRING" /\ Heap[o].frees = 0}

\* C9 as stated: every byte of every String payload of a successful parse is
\* in 0x20..0x7E.
C9_PayloadPrintable ==
    Accepted =>
        \A o \in LiveStrings :
            \A i \in 1..Len(Payload(o)) : Payload(o)[i] \in 32..126

\* C9 as amended: every byte of every String payload of a successful parse is
\* in 0x20..0x7E or is one of the five control bytes the escapes \b \f \n \r
\* \t stand for.
C9_PayloadPrintableOrEscaped ==
    Accepted =>
        \A o \in LiveStrings :
            \A i \in 1..Len(Payload(o)) :
                Payload(o)[i] \in (32..126) \cup {8, 9, 10, 12, 13}

\* a string nested in an array or object holds a newline
C9_Witness ==
    /\ Accepted
    /\ Heap[root].type \in {"ARRAY", "OBJECT"}
    /\ \E o \in LiveStrings : \E i \in 1..Len(Payload(o)) : Payload(o)[i] = CH_LF

\* C10: a value has reference count 1 from json_object_new until the release
\* that frees it, which leaves the count at 0.
C10_RefcountOne ==
    \A p \in Ptrs :
        Heap[p].kind = "json" =>
            IF Heap[p].frees = 0 THEN Heap[p].ref = 1 ELSE Heap[p].ref = 0

\* the caller holds the tree of a successful parse
Held == phase \in {"parsed", "read"} /\ root # NULL

ProbeNames == Names \cup {<<>>, <<CH_a, CH_a>>}

\* the value at index i (from 0) of array a, the member named k of object o
Elem(a, i) == pa_json_object_get_array_member(mem, a, i)

Member(o, k) == pa_json_object_get_object_member(mem, o, k)

\* C11: an object whose keys are pairwise distinct has one member per key,
\* get_object_member of a key yields the value parsed for that key and of any
\* other string NULL; a member that is null is a value of type NULL, not
\* NULL; {"a":1,"b":[true,false,null]} has the two members Int 1 and the
\* array of Bool true, Bool false, Null.
C11_DistinctKeyMembers ==
    Held =>
        /\ \A o \in Values :
               Heap[o].type = "OBJECT" =>
                   LET puts == Heap[Heap[o].ptr].puts
                   IN  (\A i, j \in 1..Len(puts) : i # j => puts[i][1] # puts[j][1]) =>
                           /\ Len(Heap[Heap[o].ptr].items) = Len(puts)
                           /\ \A i \in 1..Len(puts) :
                                  /\ Member(o, puts[i][1]) = puts[i][2]
                                  /\ puts[i][2] \in Values
                           /\ \A k \in ProbeNames :
                                  (\A i \in 1..Len(puts) : puts[i][1] # k) =>
                                      Member(o, k) = NULL
        /\ input = EX_null_member =>
               /\ Member(root, <<CH_a>>) # NULL
               /\ Heap[Member(root, <<CH_a>>)].type = "NULL"
        /\ input = EX_roundtrip =>
               /\ Heap[root].type = "OBJECT"
               /\ Len(Heap[Heap[root].ptr].items) = 2
               /\ Heap[Member(root, <<CH_a>>)].type = "INT"
               /\ Heap[Member(root, <<CH_a>>)].int_value = 1
               /\ Heap[Member(root, <<CH_b>>)].type = "ARRAY"
               /\ pa_json_object_get_array_length(mem, Member(root, <<CH_b>>)) = 3
               /\ Heap[Elem(Member(root, <<CH_b>>), 0)].type = "BOOL"
               /\ Heap[Elem(Member(root, <<CH_b>>), 0)].bool_value = TRUE
               /\ Heap[Elem(Member(root, <<CH_b>>), 1)].type = "BOOL"
               /\ Heap[Elem(Member(root, <<CH_b>>), 1)].bool_value = FALSE
               /\ Heap[Elem(Member(root, <<CH_b>>), 2)].type = "NULL"

\* get_object_member was called on an object of two members with a string
\* that is not one of its keys
C11_Witness ==
    /\ phase = "read"
    /\ ret.fn = "get_object_member"
    /\ Heap[ret.o].type = "OBJECT"
    /\ Len(Heap[Heap[ret.o].ptr].items) = 2
    /\ ret.arg = <<CH_a, CH_b>>
    /\ ret.val = NULL

\* the indexes at which the elements of an array literal start, i being the
\* index after its '[', depth the nesting below that '[' and fresh whether
\* the next byte that is not whitespace starts an element (no string of the
\* texts holds a bracket, a brace or a comma)
RECURSIVE ScanElems(_, _, _, _)
ScanElems(s, i, depth, fresh) ==
    IF i > Len(s) \/ (depth = 1 /\ s[i] = CH_RBRACKET) THEN <<>>
    ELSE IF s[i] \in {CH_LBRACKET, CH_LBRACE}
    THEN (IF depth = 1 /\ fresh THEN <<i>> ELSE <<>>) \o ScanElems(s, i + 1, depth + 1, FALSE)
    ELSE IF s[i] \in {CH_RBRACKET, CH_RBRACE} THEN ScanElems(s, i + 1, depth - 1, FALSE)
    ELSE IF depth = 1 /\ s[i] = CH_COMMA THEN ScanElems(s, i + 1, 1, TRUE)
    ELSE IF depth = 1 /\ fresh /\ ~is_whitespace(s[i])
    THEN <<i>> \o ScanElems(s, i + 1, 1, FALSE)
    ELSE ScanElems(s, i + 1, depth, fresh)

\* the types a value whose text starts with byte c can have
TypesOf(c) ==
    CASE c = CH_LBRACKET -> {"ARRAY"}
      [] c = CH_LBRACE -> {"OBJECT"}
      [] c = CH_QUOTE -> {"STRING"}
      [] c = CH_t \/ c = CH_f -> {"BOOL"}
      [] c = CH_n -> {"NULL"}
      [] OTHER -> {"INT", "DOUBLE"}

\* the array values ever made and the '[' of the text; values are made in the
\* order in which their text starts, so the k-th array is that of the k-th '['
Arrays == {o \in Ptrs : Heap[o].kind = "json" /\ Heap[o].type = "ARRAY"}

Opens == {i \in 1..Len(input) : input[i] = CH_LBRACKET}

Rank(S, x) == Cardinality({y \in S : y <= x})

ProbeIndexes == (-2)..(MaxNodes + 1)

\* C12: for an array literal of n elements get_array_length is n,
\* get_array_member(i) for 0 <= i < n is the value of the i-th element of the
\* text, and get_array_member of any other index is NULL.
C12_ArrayOrder ==
    Held =>
        /\ Cardinality(Arrays) = Cardinality(Opens)
        /\ \A o \in Arrays \cap Values : \A b \in Opens :
               Rank(Opens, b) = Rank(Arrays, o) =>
                   LET elems == ScanElems(input, b + 1, 1, TRUE)
                   IN  /\ pa_json_object_get_array_length(mem, o) = Len(elems)
                       /\ \A i \in 0..(Len(elems) - 1) :
                              /\ Elem(o, i) \in Values
                              /\ Heap[Elem(o, i)].type \in TypesOf(input[elems[i + 1]])
                              /\ i > 0 => Elem(o, i - 1) < Elem(o, i)
                       /\ \A i \in ProbeIndexes :
                              (i < 0 \/ i >= Len(elems)) => Elem(o, i) = NULL

\* the second element of an array whose first two elements differ in type
\* was fetched
C12_Witness ==
    /\ phase = "read"
    /\ ret.fn = "get_array_member"
    /\ ret.arg = 1
    /\ ret.val # NULL
    /\ Heap[ret.val].type # Heap[Elem(ret.o, 0)].type

\* the indexes at which the parser expects a key: after the '{' of an object
\* and after a ',' directly inside an object; stack holds the open brackets
\* around index i and instr says whether i is inside a string (the texts of
\* Spec hold no backslash)
RECURSIVE KeyStarts(_, _, _, _)
KeyStarts(s, i, stack, instr) ==
    IF i > Len(s) THEN {}
    ELSE IF instr THEN KeyStarts(s, i + 1, stack, s[i] # CH_QUOTE)
    ELSE IF s[i] = CH_QUOTE THEN KeyStarts(s, i + 1, stack, TRUE)
    ELSE IF s[i] = CH_LBRACE
    THEN {i + 1} \cup KeyStarts(s, i + 1, <<CH_LBRACE>> \o stack, FALSE)
    ELSE IF s[i] = CH_LBRACKET THEN KeyStarts(s, i + 1, <<CH_LBRACKET>> \o stack, FALSE)
    ELSE IF s[i] \in {CH_RBRACE, CH_RBRACKET}
    THEN KeyStarts(s, i + 1, IF stack = <<>> THEN stack ELSE Tail(stack), FALSE)
    ELSE IF s[i] = CH_COMMA /\ stack # <<>> /\ Head(stack) = CH_LBRACE
    THEN {i + 1} \cup KeyStarts(s, i + 1, stack, FALSE)
    ELSE KeyStarts(s, i + 1, stack, FALSE)

\* C13: when the text in key position of an object does not start a string
\* (so it is a value of another type, or no value), pa_json_parse returns
\* NULL; {1:2} fails.
C13_KeyMustBeString ==
    phase # "start" =>
        /\ \A k \in KeyStarts(input, 1, <<>>, FALSE) :
               Deref(SkipWhitespace(k)) # CH_QUOTE => root = NULL
        /\ input \in KeyExamples => root = NULL
        /\ input = <<CH_LBRACE, CH_1, CH_COLON, CH_2, CH_RBRACE>> => root = NULL

\* the second key of an object was parsed as a number, after a member had
\* been put into the object
C13_Witness ==
    /\ Rejected
    /\ input = EX_number_key
    /\ \E p \in Ptrs : Heap[p].kind = "hashmap" /\ Len(Heap[p].puts) = 1
    /\ Len(mem.log) >= 3
    /\ mem.log[3].end = CStr(<<CH_COLON>>) /\ mem.log[3].ok

\* what the last accessor call returned is its default when the type of the
\* value it was called on is not the type it asks for
DefaultOnMismatch ==
    /\ ret.fn = "get_int" => (Heap[ret.o].type # "INT" => ret.val = 0)
    /\ ret.fn = "get_double" => (Heap[ret.o].type # "DOUBLE" => ret.val = NoDouble)
    /\ ret.fn = "get_bool" => (Heap[ret.o].type # "BOOL" => ret.val = FALSE)
    /\ ret.fn = "get_string" => (Heap[ret.o].type # "STRING" => ret.val = NULL)
    /\ ret.fn = "get_object_member" => (Heap[ret.o].type # "OBJECT" => ret.val = NULL)
    /\ ret.fn = "get_array_length" => (Heap[ret.o].type # "ARRAY" => ret.val = 0)
    /\ ret.fn = "get_array_member" => (Heap[ret.o].type # "ARRAY" => ret.val = NULL)

\* C14: a step that is an accessor call changes neither the memory (types,
\* payloads, children, reference counts, frees) nor the root, and returns the
\* accessor's default (0, 0.0, false, NULL, NULL, 0, NULL) when the type of
\* the value does not match.
C14_AccessorsDefaultAndFrame ==
    [][ret' # ret => mem' = mem /\ root' = root /\ input' = input /\ DefaultOnMismatch']_vars

\* the length of an object was asked for
C14_Witness ==
    /\ phase = "read"
    /\ ret.fn = "get_array_length"
    /\ Heap[ret.o].type = "OBJECT"
    /\ ret.val = 0

\* C15: an array literal of '[', whitespace or nothing, and ']' is accepted
\* as an array of length 0, at the top level, as an element and as a member.
C15_EmptyArray ==
    /\ phase # "start" /\ input \in EmptyArrayExamples => root # NULL
    /\ Held =>
           /\ Cardinality(Arrays) = Cardinality(Opens)
           /\ \A o \in Arrays \cap Values : \A b \in Opens :
                  /\ Rank(Opens, b) = Rank(Arrays, o)
                  /\ Deref(SkipWhitespace(b + 1)) = CH_RBRACKET
                  => /\ pa_json_object_get_array_length(mem, o) = 0
                     /\ Heap[Heap[o].ptr].items = <<>>
                     /\ Elem(o, 0) = NULL

\* an empty array with whitespace between its brackets was parsed as the
\* member of an object
C15_Witness ==
    /\ Held
    /\ Heap[root].type = "OBJECT"
    /\ \E b \in Opens : is_whitespace(Deref(b + 1)) /\ Deref(SkipWhitespace(b + 1)) = CH_RBRACKET
    /\ \E k \in Names :
           /\ Member(root, k) # NULL
           /\ Heap[Member(root, k)].type = "ARRAY"
           /\ pa_json_object_get_array_length(mem, Member(root, k)) = 0

\* the bytes of lit are in the text from index i on
LitAt(i, lit) ==
    i + Len(lit) - 1 <= Len(input) /\ SubSeq(input, i, i + Len(lit) - 1) = lit

\* C16: a parse_value call that returns without having reached FINISH fails;
\* after a successful parse no value, live or released, has type INIT; after
\* a failed parse no value is left; and a text in which t, f or n does not
\* start the whole literal true, false or null is rejected (in the texts of
\* Spec these three bytes occur outside strings only).
C16_NoUninitializedValue ==
    phase # "start" =>
        /\ \A i \in 1..Len(mem.log) : mem.log[i].fin = 0 => ~mem.log[i].ok
        /\ root # NULL =>
               \A p \in Ptrs : Heap[p].kind = "json" => Heap[p].type # "INIT"
        /\ root = NULL => Values = {}
        /\ \A i \in 1..Len(input) :
               \/ input[i] = CH_t /\ ~LitAt(i, LIT_true)
               \/ input[i] = CH_f /\ ~LitAt(i, LIT_false)
               \/ input[i] = CH_n /\ ~LitAt(i, LIT_null)
               => root = NULL

\* a literal false cut short was an array element: parse_boolean left the
\* value typed, parse_value released it and the parse failed
C16_Witness ==
    /\ Rejected
    /\ input = EX_bad_false
    /\ \E p \in Ptrs : Heap[p].kind = "json" /\ Heap[p].type = "BOOL" /\ Heap[p].frees = 1

\* 32-bit two's complement arithmetic on the integers -2^31 .. 2^31 - 1: the
\* sum, ten times a number and the negation, each reduced modulo 2^32
WrapAdd(x, y) ==
    IF x >= 0 /\ y >= 0 /\ x > 2147483647 - y
    THEN (x - 2147483647 - 1) + (y - 2147483647 - 1)
    ELSE IF x < 0 /\ y < 0 /\ x < (-2147483647 - 1) - y
    THEN (x + 2147483647 + 1) + (y + 2147483647 + 1)
    ELSE x + y

WrapTimes10(x) ==
    LET x2 == WrapAdd(x, x)
        x8 == WrapAdd(WrapAdd(x2, x2), WrapAdd(x2, x2))
    IN  WrapAdd(x8, x2)

WrapNeg(x) == IF x = -2147483647 - 1 THEN x ELSE -x

\* the first n digits of s accumulated as integer = integer * 10 + digit
WrapStep(acc, d) == WrapAdd(WrapTimes10(acc), d)

\* the value of the first n digits of s; each step is taken on the value of
\* the step before it
RECURSIVE WrapDigits(_, _)
WrapDigits(s, n) ==
    IF n = 0 THEN 0
    ELSE CHOOSE r \in {WrapStep(acc, s[n] - CH_0) : acc \in {WrapDigits(s, n - 1)}} : TRUE

\* C17: an integer literal of any magnitude is accepted, as an Int whose
\* value is sign * (N mod 2^32) as a signed 32-bit number, the digits being
\* accumulated modulo 2^32.
C17_IntegerWraps ==
    phase # "start" =>
        LET neg == Is(input, 1, {CH_MINUS})
            run == IF neg THEN SubSeq(input, 2, Len(input)) ELSE input
            n == WrapDigits(run, Len(run))
        IN  /\ root # NULL
            /\ Heap[root].type = "INT"
            /\ Heap[root].int_value = IF neg THEN WrapNeg(n) ELSE n
            /\ input = EX_2p32 => Heap[root].int_value = 0
            /\ input = EX_2p32_less_1 => Heap[root].int_value = -1
            /\ input = EX_2p32_plus_5 => Heap[root].int_value = 5
            /\ input = EX_2p31 => Heap[root].int_value = -2147483647 - 1
            /\ input = <<CH_MINUS>> \o EX_2p31 => Heap[root].int_value = -2147483647 - 1
            /\ input = <<CH_MINUS>> \o EX_2p31_plus_1 => Heap[root].int_value = 2147483647
            /\ input = EX_eleven_nines => Heap[root].int_value = 1215752191

\* a negative literal of ten digits was parsed to an Int of fewer digits:
\* its magnitude passed 2^32 and wrapped
C17_Witness ==
    /\ Accepted /\ Is(input, 1, {CH_MINUS}) /\ Len(input) = 11
    /\ input \notin {<<CH_MINUS>> \o t : t \in WrapExamples}
    /\ Heap[root].type = "INT"
    /\ Heap[root].int_value < 0 /\ Heap[root].int_value > -1000000000

\* the object values ever made
Objects == {o \in Ptrs : Heap[o].kind = "json" /\ Heap[o].type = "OBJECT"}

\* C18: an object literal without members ('{', whitespace or nothing, '}')
\* makes pa_json_parse return NULL, and so does a ',' that '}' follows; every
\* Object of a successful parse holds at least one member.
C18_NoEmptyObject ==
    phase # "start" =>
        /\ \A k \in KeyStarts(input, 1, <<>>, FALSE) :
               Deref(SkipWhitespace(k)) = CH_RBRACE => root = NULL
        /\ input \in EmptyObjectExamples => root = NULL
        /\ root # NULL =>
               \A o \in Objects \cap Values :
                   /\ Heap[o].ptr # NULL
                   /\ Len(Heap[Heap[o].ptr].items) >= 1
                   /\ Len(Heap[Heap[o].ptr].puts) >= 1

\* an object was rejected at the '}' that follows the ',' after its first
\* member, which had been put into it
C18_Witness ==
    /\ Rejected
    /\ input = EX_object_trailing_comma
    /\ \E p \in Ptrs : Heap[p].kind = "hashmap" /\ Len(Heap[p].puts) = 1
    /\ mem.rd = Len(input)

\* the indexes at which the parser expects an element: after the '[' of an
\* array and after a ',' directly inside an array
RECURSIVE ElemSlots(_, _, _, _)
ElemSlots(s, i, stack, instr) ==
    IF i > Len(s) THEN {}
    ELSE IF instr THEN ElemSlots(s, i + 1, stack, s[i] # CH_QUOTE)
    ELSE IF s[i] = CH_QUOTE THEN ElemSlots(s, i + 1, stack, TRUE)
    ELSE IF s[i] = CH_LBRACKET
    THEN {i + 1} \cup ElemSlots(s, i + 1, <<CH_LBRACKET>> \o stack, FALSE)
    ELSE IF s[i] = CH_LBRACE THEN ElemSlots(s, i + 1, <<CH_LBRACE>> \o stack, FALSE)
    ELSE IF s[i] \in {CH_RBRACE, CH_RBRACKET}
    THEN ElemSlots(s, i + 1, IF stack = <<>> THEN stack ELSE Tail(stack), FALSE)
    ELSE IF s[i] = CH_COMMA /\ stack # <<>> /\ Head(stack) = CH_LBRACKET
    THEN {i + 1} \cup ElemSlots(s, i + 1, stack, FALSE)
    ELSE ElemSlots(s, i + 1, stack, FALSE)

\* the indexes at which the elements of an array literal start, as ScanElems
\* but over texts whose strings may hold brackets, braces and commas
RECURSIVE ElemsFrom(_, _, _, _, _)
ElemsFrom(s, i, depth, fresh, instr) ==
    IF i > Len(s) THEN <<>>
    ELSE IF instr THEN ElemsFrom(s, i + 1, depth, FALSE, s[i] # CH_QUOTE)
    ELSE IF depth = 1 /\ s[i] = CH_RBRACKET THEN <<>>
    ELSE IF s[i] = CH_QUOTE
    THEN (IF depth = 1 /\ fresh THEN <<i>> ELSE <<>>) \o ElemsFrom(s, i + 1, depth, FALSE, TRUE)
    ELSE IF s[i] \in {CH_LBRACKET, CH_LBRACE}
    THEN (IF depth = 1 /\ fresh THEN <<i>> ELSE <<>>)
         \o ElemsFrom(s, i + 1, depth + 1, FALSE, FALSE)
    ELSE IF s[i] \in {CH_RBRACKET, CH_RBRACE} THEN ElemsFrom(s, i + 1, depth - 1, FALSE, FALSE)
    ELSE IF depth = 1 /\ s[i] = CH_COMMA THEN ElemsFrom(s, i + 1, 1, TRUE, FALSE)
    ELSE IF depth = 1 /\ fresh /\ ~is_whitespace(s[i])
    THEN <<i>> \o ElemsFrom(s, i + 1, 1, FALSE, FALSE)
    ELSE ElemsFrom(s, i + 1, depth, fresh, FALSE)

\* whether the ']' that closes the array literal whose '[' is before index i
\* follows a ',' with nothing but whitespace between them; comma says
\* whether the last byte before i that is not whitespace is such a ','
RECURSIVE TrailingComma(_, _, _, _, _)
TrailingComma(s, i, depth, instr, comma) ==
    IF i > Len(s) THEN FALSE
    ELSE IF instr THEN TrailingComma(s, i + 1, depth, s[i] # CH_QUOTE, FALSE)
    ELSE IF depth = 1 /\ s[i] = CH_RBRACKET THEN comma
    ELSE IF s[i] = CH_QUOTE THEN TrailingComma(s, i + 1, depth, TRUE, FALSE)
    ELSE IF s[i] \in {CH_LBRACKET, CH_LBRACE}
    THEN TrailingComma(s, i + 1, depth + 1, FALSE, FALSE)
    ELSE IF s[i] \in {CH_RBRACKET, CH_RBRACE}
    THEN TrailingComma(s, i + 1, depth - 1, FALSE, FALSE)
    ELSE IF depth = 1 /\ s[i] = CH_COMMA THEN TrailingComma(s, i + 1, 1, FALSE, TRUE)
    ELSE IF is_whitespace(s[i]) THEN TrailingComma(s, i + 1, depth, FALSE, comma)
    ELSE TrailingComma(s, i + 1, depth, FALSE, FALSE)

\* C19: an array literal whose last element is followed by ',', whitespace or
\* nothing, and ']' is accepted as the array of the elements before that ',';
\* a ',' in the place of an element makes pa_json_parse return NULL.
C19_TrailingComma ==
    phase # "start" =>
        /\ \A p \in ElemSlots(input, 1, <<>>, FALSE) :
               Deref(SkipWhitespace(p)) = CH_COMMA => root = NULL
        /\ input \in TrailingCommaRejected => root = NULL
        /\ input \in TrailingCommaAccepted => root # NULL
        /\ root # NULL =>
               \A o \in Arrays \cap Values : \A b \in Opens :
                   /\ Cardinality(Arrays) = Cardinality(Opens)
                   /\ Rank(Opens, b) = Rank(Arrays, o)
                   /\ TrailingComma(input, b + 1, 1, FALSE, FALSE)
                   => LET elems == ElemsFrom(input, b + 1, 1, TRUE, FALSE)
                      IN  /\ Len(elems) >= 1
                          /\ pa_json_object_get_array_length(mem, o) = Len(elems)
                          /\ \A i \in 0..(Len(elems) - 1) :
                                 /\ Elem(o, i) \in Values
                                 /\ Heap[Elem(o, i)].type \in TypesOf(input[elems[i + 1]])
                          /\ Elem(o, Len(elems)) = NULL
        /\ input = EX_trailing_comma /\ root \in Values =>
               /\ pa_json_object_get_array_length(mem, root) = 1
               /\ Heap[Elem(root, 0)].type = "INT" /\ Heap[Elem(root, 0)].int_value = 1
        /\ input = EX_trailing_comma_ws /\ root \in Values =>
               /\ pa_json_object_get_array_length(mem, root) = 2
               /\ Heap[Elem(root, 0)].type = "INT" /\ Heap[Elem(root, 0)].int_value = 1
               /\ Heap[Elem(root, 1)].type = "INT" /\ Heap[Elem(root, 1)].int_value = 2

\* a nested array with a trailing comma was accepted with its one element,
\* as the one element of an array with a trailing comma
C19_Witness ==
    /\ Accepted
    /\ input = <<CH_LBRACKET>> \o EX_trailing_comma \o <<CH_COMMA, CH_RBRACKET>>
    /\ pa_json_object_get_array_length(mem, root) = 1
    /\ Heap[Elem(root, 0)].type = "ARRAY"
    /\ pa_json_object_get_array_length(mem, Elem(root, 0)) = 1

\* C20: whatever the text, no byte after its terminating NUL is read, on
\* success or on failure, and the cursor moves forward: a parse_value call
\* returns at or after the index at which its value ended, calls return in
\* the order of their cursors, and a successful parse has read up to the NUL
\* and no further.
C20_CursorInBounds ==
    phase # "start" =>
        /\ mem.rd >= 1
        /\ mem.rd <= Len(input) + 1
        /\ \A i \in 1..Len(mem.log) :
               /\ mem.log[i].stop >= 1
               /\ mem.log[i].stop <= Len(input) + 1
               /\ mem.log[i].stop <= mem.rd
               /\ mem.log[i].fin > 0 => mem.log[i].fin <= mem.log[i].stop
               /\ \A j \in 1..Len(mem.log) :
                      i < j /\ mem.log[i].ok /\ mem.log[j].ok
                      => mem.log[i].stop <= mem.log[j].stop
        /\ root # NULL => mem.rd = Len(input) + 1

\* a text that ends with a backslash inside a string was rejected at the
\* NUL after the backslash
C20_Witness ==
    /\ Rejected
    /\ Len(input) >= 3
    /\ input[Len(input)] = CH_BACKSLASH
    /\ input[Len(input) - 1] # CH_BACKSLASH
    /\ input[1] = CH_QUOTE
    /\ mem.rd = Len(input) + 1

\* what a line is by its text: the line without its leading whitespace, its
\* first word, and what follows the first word
Blanks == {CH_SPACE, CH_TAB, CH_LF, CH_CR}

Least(S) == CHOOSE i \in S : \A j \in S : i <= j

Stripped(s) ==
    LET ns == {i \in 1..Len(s) : s[i] \notin Blanks}
    IN  IF ns = {} THEN <<>> ELSE SubSeq(s, Least(ns), Len(s))

WordLen(t) ==
    LET ws == {i \in 1..Len(t) : t[i] \in Blanks}
    IN  IF ws = {} THEN Len(t) ELSE Least(ws) - 1

FirstWord(s) == SubSeq(Stripped(s), 1, WordLen(Stripped(s)))

AfterFirstWord(s) ==
    Stripped(SubSeq(Stripped(s), WordLen(Stripped(s)) + 1, Len(Stripped(s))))

\* the lines of a script: its runs of bytes other than line breaks, after an
\* empty line when the script starts with a line break
RECURSIVE Runs(_, _)
Runs(s, i) ==
    IF i > Len(s) THEN <<>>
    ELSE IF s[i] \in {CH_LF, CH_CR} THEN Runs(s, i + 1)
    ELSE LET j == Least({k \in i..(Len(s) + 1) : k = Len(s) + 1 \/ s[k] \in {CH_LF, CH_CR}})
         IN  <<SubSeq(s, i, j - 1)>> \o Runs(s, j)

ScriptLines(s) ==
    IF s # <<>> /\ s[1] \in {CH_LF, CH_CR} THEN <<<<>>>> \o Runs(s, 1) ELSE Runs(s, 1)

CommandNames == {commands[k].name : k \in 1..Len(commands)}

FlagMetas == {fail_meta, nofail_meta}

Metas == FlagMetas \cup {verbose_meta, noverbose_meta}

\* the fail flag after the first i lines of the trace: what the last .fail or
\* .nofail among them left, the flag of the caller when there is none
FlagAt(i) ==
    LET S == {j \in 1..i : Stripped(cli.trace[j].line) \in FlagMetas}
        last == CHOOSE j \in S : \A k \in S : k <= j
    IN  IF S = {} THEN cli.arg_fail
        ELSE IF Stripped(cli.trace[last].line) = fail_meta THEN 1 ELSE 0

IsTop(e) == e.depth = 0

\* whether a line fails, by its text
LineFails(e) ==
    LET t == Stripped(e.line)
        w == FirstWord(e.line)
    IN  IF t = <<>> \/ t[1] = CH_HASH THEN FALSE
        ELSE IF t \in Metas THEN FALSE
        ELSE IF w = include_meta
        THEN AfterFirstWord(e.line) \notin DOMAIN Files \/ e.failed
        ELSE IF t[1] = CH_DOT THEN TRUE
        ELSE IF w \notin CommandNames THEN TRUE
        ELSE e.failed

\* C21: the lines of the script are executed in order, under a fail flag that
\* only .fail and .nofail change; a line returns -1 exactly when it fails
\* while the flag is set, and then no line is executed after it and
\* pa_cli_command_execute returns -1; a failure while the flag is clear is
\* ignored, and when no line returned -1 every line was executed and the
\* result is 0; blank lines and comments never fail and call no handler.
C21_FailFlag ==
    cli.pc # "none" =>
        LET T == cli.trace
            top == SelectSeq(cli.trace, IsTop)
            lines == ScriptLines(cli.s)
        IN  /\ Len(top) <= Len(lines)
            /\ \A i \in 1..Len(top) : top[i].line = lines[i]
            /\ cli.fail = FlagAt(Len(T))
            /\ \A i \in 1..Len(T) :
                   /\ T[i].fail = FlagAt(i)
                   /\ T[i].failed = LineFails(T[i])
                   /\ T[i].ret = IF T[i].failed /\ T[i].fail = 1 THEN -1 ELSE 0
                   /\ Stripped(T[i].line) = <<>> \/ Stripped(T[i].line)[1] = CH_HASH
                      => T[i].kind = "skip" /\ T[i].ret = 0
                   /\ T[i].kind = "proc" => FirstWord(T[i].line) \in CommandNames
                   /\ T[i].ret = -1 =>
                          IF T[i].depth = 0
                          THEN i = Len(T) /\ cli.pc = "done" /\ cli.result = -1
                          ELSE /\ i < Len(T)
                               /\ T[i + 1].kind = "include"
                               /\ T[i + 1].depth = T[i].depth - 1
                               /\ T[i + 1].ret = -1
            /\ cli.pc = "loop" => \A i \in 1..Len(T) : T[i].ret = 0
            /\ cli.pc = "done" =>
                   /\ cli.result = -1 <=> Len(T) > 0 /\ T[Len(T)].ret = -1
                   /\ cli.result = 0 =>
                          /\ Len(top) = Len(lines)
                          /\ \A i \in 1..Len(T) : T[i].ret = 0
            /\ cli.pc = "done" /\ cli.s = EX_fail_stops =>
                   cli.result = -1 /\ Len(T) = 2 /\ T[2].kind = "unknown"
            /\ cli.pc = "done" /\ cli.s = EX_nofail_goes_on =>
                   cli.result = 0 /\ Len(T) = 3 /\ T[2].failed /\ T[3].kind = "proc"

\* a script whose caller had set the flag cleared it, went on after an
\* unknown command, set it again inside an included file and was ended by
\* the unknown command of that file, whose last line was never executed
C21_Witness ==
    /\ cli.pc = "done"
    /\ cli.result = -1
    /\ cli.arg_fail = 1
    /\ Len(ScriptLines(cli.s)) = 3
    /\ Len(cli.trace) = 5
    /\ cli.trace[1].kind = "nofail"
    /\ cli.trace[2].kind = "unknown" /\ cli.trace[2].ret = 0
    /\ cli.trace[3].kind = "fail" /\ cli.trace[3].depth = 1
    /\ cli.trace[4].kind = "unknown" /\ cli.trace[4].ret = -1
    /\ cli.trace[5].kind = "include" /\ cli.trace[5].depth = 0

====
